---- MODULE Spec2Model ----
(***************************************************************************)
(* Cage-based execution runtime of exec-wasmtime (runtime/mod.rs).         *)
(*                                                                         *)
(* The model follows Runtime::execute, Runtime::execute_with_lind,         *)
(* HostCtx::fork and the exec closure.  Objects that the Rust code holds   *)
(* behind a pointer (WasiCtx, LindCommonCtx, LindCtx, Arc<AtomicU64>,      *)
(* Arc<WasiThreadsCtx>) live in heaps and are named by handles, so that    *)
(* aliasing and copying are different things in the model.                 *)
(***************************************************************************)
EXTENDS Integers, Sequences, FiniteSets, TLC

\* ---------------------------------------------------------------- bounds
MaxOps == 3         \* fork, exec, thread-start and argv-change calls in one run

\* ------------------------------------------------------- program constants
CAGE_START_ID   == 1
THREAD_START_ID == 1
None            == 0            \* an absent context (Option::None of a handle)
NoSteward       == "none"       \* Config.steward: None

\* ----------------------------------------------------------------- state
VARIABLES
    phase,          \* "start" before Runtime::execute has built the cage, then "up"
    package,        \* Workload.config of the package: None or a Config
    allocators,     \* heap of Arc<AtomicU64>: handle -> value
    lind_manager,   \* LindCageManager counter
    preview1,       \* heap of WasiCtx: handle -> argument vector
    common,         \* heap of LindCommonCtx: handle -> [pid, next_cageid]
    forkc,          \* heap of LindCtx: handle -> [pid, next_cageid, conf]
    arcs,           \* number of Arc<WasiThreadsCtx> objects created
    cages,          \* the cages, in creation order; besides the program's
                    \* state a cage carries history: decs (cage-manager
                    \* decrements made for it), trueobs (exit observations
                    \* that answered true), image (the exec that built its
                    \* current image, 0 for the launch's)
    epoch_handler,  \* rawposix thread table: cage id -> registered thread ids
    exit_calls,     \* EXIT_SYSCALLs issued: cage id -> the codes, in order
    ops,            \* fork, exec, thread-start and argv-change calls so far
    last_exec,      \* history: the last exec call, [cage, raw, pre, pid]
    wasm,           \* the module being loaded and the call of load_main_module
    loader,         \* position and locals of load_main_module
    toplevel,       \* how Runtime::execute ended, once it has
    setup,          \* position and locals of the set-up of a launch or exec
    unit            \* argument and result of a function applied on its own

vars == <<phase, package, allocators, lind_manager, preview1, common, forkc,
          arcs, cages, epoch_handler, exit_calls, ops, last_exec, wasm, loader,
          toplevel, setup, unit>>

Pids    == 1..(MaxOps + 2)
Tids    == 1..(MaxOps + 1)
Slots   == 1..Len(cages)

\* ------------------------------------------------------------ Config
\* enarx_config::Config { steward, args, files, env } and its Default.
Config(s, a, f, e) == [steward |-> s, args |-> a, files |-> f, env |-> e]

DefaultConfig == Config(NoSteward, <<>>, <<>>, <<>>)

\* Option<Config>: NoConfig is None, Some(c) holds c.
NoConfig == <<>>

Some(c) == <<c>>

\* The configurations a package may carry (None: no Enarx.toml).
Packages ==
    { NoConfig,
      Some(DefaultConfig),
      Some(Config("url", <<"x", "y">>, <<"f">>, <<"e">>)) }

\* The raw argument lists an execv() call may pass.
RawArgs == { <<>>, <<"prog">>, <<"prog", "a", "b">> }

\* Option<Config>::unwrap_or_default
UnwrapOrDefault(conf) == IF conf = NoConfig THEN DefaultConfig ELSE conf[1]

\* ------------------------------------------------------------ HostCtx
\* An argument vector without the placeholder program name.
FullArgs_bare(args) == args

\* full_args: the placeholder program name, then the configured args.
FullArgs(args) == <<"main.wasm">> \o args

\* Handles are indices into the heaps; a fresh object gets the next index.
Fresh(heap) == Len(heap) + 1

\* WasiCtx::fork, LindCtx::fork, LindCommonCtx::fork: a new object holding a
\* copy of the original's fields (the allocator handle inside is re-wrapped,
\* not duplicated).
ForkObject(heap, h) == Append(heap, heap[h])

\* #[derive(Clone)] on HostCtx: every field is cloned, which for the
\* reference-counted contexts means the child aliases the parent's objects.
HostCtx_clone(self) ==
    [child |-> self, preview1 |-> preview1, common |-> common,
     forkc |-> forkc, arcs |-> arcs, allocators |-> allocators]

\* A fork that also gives the thread pool a copy of its own.
HostCtx_fork_deep(self) ==
    [child |->
        [preview1_ctx    |-> IF self.preview1_ctx = None THEN None ELSE Fresh(preview1),
         lind_fork_ctx   |-> IF self.lind_fork_ctx = None THEN None ELSE Fresh(forkc),
         lind_common_ctx |-> IF self.lind_common_ctx = None THEN None ELSE Fresh(common),
         wasi_threads    |-> IF self.wasi_threads = None THEN None ELSE arcs + 1],
     preview1 |-> IF self.preview1_ctx = None THEN preview1
                  ELSE ForkObject(preview1, self.preview1_ctx),
     forkc    |-> IF self.lind_fork_ctx = None THEN forkc
                  ELSE ForkObject(forkc, self.lind_fork_ctx),
     common   |-> IF self.lind_common_ctx = None THEN common
                  ELSE ForkObject(common, self.lind_common_ctx),
     arcs       |-> IF self.wasi_threads = None THEN arcs ELSE arcs + 1,
     allocators |-> allocators]

\* A fork that draws the child's identity from the allocator itself.
HostCtx_fork_alloc(self) ==
    [child |->
        [preview1_ctx    |-> IF self.preview1_ctx = None THEN None ELSE Fresh(preview1),
         lind_fork_ctx   |-> IF self.lind_fork_ctx = None THEN None ELSE Fresh(forkc),
         lind_common_ctx |-> IF self.lind_common_ctx = None THEN None ELSE Fresh(common),
         wasi_threads    |-> self.wasi_threads],
     preview1 |-> IF self.preview1_ctx = None THEN preview1
                  ELSE ForkObject(preview1, self.preview1_ctx),
     forkc    |-> IF self.lind_fork_ctx = None THEN forkc
                  ELSE ForkObject(forkc, self.lind_fork_ctx),
     common   |-> IF self.lind_common_ctx = None THEN common
                  ELSE ForkObject(common, self.lind_common_ctx),
     arcs       |-> arcs,
     allocators |-> IF self.lind_fork_ctx = None THEN allocators
                    ELSE [allocators EXCEPT ![forkc[self.lind_fork_ctx].next_cageid] = @ + 1]]

\* A fork that builds the child from Default and forgets the thread pool.
HostCtx_fork_nopool(self) ==
    [child |->
        [preview1_ctx    |-> IF self.preview1_ctx = None THEN None ELSE Fresh(preview1),
         lind_fork_ctx   |-> IF self.lind_fork_ctx = None THEN None ELSE Fresh(forkc),
         lind_common_ctx |-> IF self.lind_common_ctx = None THEN None ELSE Fresh(common),
         wasi_threads    |-> None],
     preview1 |-> IF self.preview1_ctx = None THEN preview1
                  ELSE ForkObject(preview1, self.preview1_ctx),
     forkc    |-> IF self.lind_fork_ctx = None THEN forkc
                  ELSE ForkObject(forkc, self.lind_fork_ctx),
     common   |-> IF self.lind_common_ctx = None THEN common
                  ELSE ForkObject(common, self.lind_common_ctx),
     arcs       |-> arcs,
     allocators |-> allocators]

\* HostCtx::fork(&self): the child context and the heaps after the call.
\* preview1_ctx, lind_fork_ctx and lind_common_ctx are forked when present;
\* wasi_threads is the parent's Arc, cloned.
HostCtx_fork(self) ==
    [child |->
        [preview1_ctx    |-> IF self.preview1_ctx = None THEN None ELSE Fresh(preview1),
         lind_fork_ctx   |-> IF self.lind_fork_ctx = None THEN None ELSE Fresh(forkc),
         lind_common_ctx |-> IF self.lind_common_ctx = None THEN None ELSE Fresh(common),
         wasi_threads    |-> self.wasi_threads],
     preview1 |-> IF self.preview1_ctx = None THEN preview1
                  ELSE ForkObject(preview1, self.preview1_ctx),
     forkc    |-> IF self.lind_fork_ctx = None THEN forkc
                  ELSE ForkObject(forkc, self.lind_fork_ctx),
     common   |-> IF self.lind_common_ctx = None THEN common
                  ELSE ForkObject(common, self.lind_common_ctx),
     arcs       |-> arcs,
     allocators |-> allocators]

\* ------------------------------------------------------------ exec closure
\* args.get(1..).map_or(vec![], |s| s.to_vec())
ExecArgs_whole(args) == args

ExecArgs(args) == IF Len(args) >= 1 THEN SubSeq(args, 2, Len(args)) ELSE <<>>

\* The closure with `if let Some(conf) = &mut new_enarx_conf`: an absent
\* configuration stays absent.
NewEnarxConf_iflet(enarx_conf, args) ==
    IF enarx_conf = NoConfig THEN NoConfig
    ELSE Some([enarx_conf[1] EXCEPT !.args = ExecArgs(args)])

\* A closure that builds the configuration of the new image from Default.
NewEnarxConf_fresh(enarx_conf, args) ==
    Some([DefaultConfig EXCEPT !.args = ExecArgs(args)])

\* new_enarx_conf.get_or_insert_with(|| Config { args: vec![], ..Default })
\* followed by conf.args = ...; the result is the Some(conf.clone()) the
\* closure passes on.
NewEnarxConf(enarx_conf, args) ==
    LET conf == IF enarx_conf = NoConfig THEN DefaultConfig ELSE enarx_conf[1]
    IN  Some([conf EXCEPT !.args = ExecArgs(args)])

\* An exec that goes on with the engine and module of the calling image.
ExecEngine_inherited(inherited, fresh) == inherited

\* let engine = Engine::new(&config)?; let module =
\* Module::from_binary(&engine, &webasm)?: execute_with_lind runs the program
\* on an engine and a compiled module of its own making.
ExecEngine(inherited, fresh) == fresh

\* The allocator execute_with_lind hands to LindCommonCtx::new_with_pid and
\* LindCtx::new_with_pid: the inherited next_cageid, not the Arc it creates
\* itself as shared_next_cageid.
ExecAllocator_fresh(next_cageid, shared_next_cageid) == shared_next_cageid

ExecAllocator(next_cageid, shared_next_cageid) == next_cageid

\* ------------------------------------------------------------ helpers
NoThreads == [t \in Tids |-> "none"]

Running(c) == \E t \in Tids : cages[c].pc[t] = "run"

\* rawposix lind_signal_init: registers a thread's epoch cell with its cage.
SignalInit(table, pid, tid) == [table EXCEPT ![pid] = @ \cup {tid}]

\* rawposix lind_thread_exit: drops the thread from the cage's table and
\* tells whether the table is empty now.
ThreadExitTable(table, pid, tid) == [table EXCEPT ![pid] = @ \ {tid}]

ThreadExitLast(table, pid, tid) == table[pid] \ {tid} = {}

\* ------------------------------------------------------------ Init
\* A 64-bit word is written as its four 16-bit limbs, most significant first.
Limb == 65536

\* `code as u64` on an i32: the two's-complement sign extension to 64 bits.
I32AsU64(n) ==
    LET ext == IF n < 0 THEN Limb - 1 ELSE 0
    IN  <<ext, ext, (n \div Limb) % Limb, n % Limb>>

\* No module is being loaded: load_main_module is not on the stack.
NoWasm == [module |-> <<>>, args |-> <<>>, caller |-> "none", pid |-> 0]

\* Runtime::execute has not come back yet.
Running1 == [state |-> "running", ok |-> TRUE, vals |-> <<>>, err |-> "", code |-> 0]

\* No set-up is being followed step by step.
SetupIdle == [pc |-> "idle", i |-> 0, caller |-> "none", fails |-> "", trace |-> <<>>,
              host |-> [preview1_ctx |-> 0, wasi_threads |-> 0,
                        lind_common_ctx |-> 0, lind_fork_ctx |-> 0],
              input |-> <<>>, workload |-> <<>>, result |-> "",
              pid |-> 0, next_cageid |-> 0]

\* No function is applied on its own.
NoUnit == [fn |-> "none", arg |-> <<>>, out |-> <<>>]

LoaderIdle == [pc |-> "idle", i |-> 0, func |-> <<>>, trace |-> <<>>,
               calls |-> 0, trapped |-> FALSE, values |-> <<>>,
               result |-> [ok |-> TRUE, vals |-> <<>>, err |-> ""]]

Init ==
    /\ phase = "start"
    /\ package \in Packages
    /\ allocators = <<>>
    /\ lind_manager = 0
    /\ preview1 = <<>>
    /\ common = <<>>
    /\ forkc = <<>>
    /\ arcs = 0
    /\ cages = <<>>
    /\ epoch_handler = [p \in Pids |-> {}]
    /\ exit_calls = [p \in Pids |-> <<>>]
    /\ ops = 0
    /\ last_exec = [cage |-> 0, raw |-> <<>>, pre |-> NoConfig, pid |-> 0]
    /\ wasm = NoWasm
    /\ loader = LoaderIdle
    /\ toplevel = Running1
    /\ setup = SetupIdle
    /\ unit = NoUnit

\* ------------------------------------------------------------ Runtime::execute
\* A launch that creates the cage manager and forgets to count its cage.
LaunchCount_noinc == LET new == 0 IN new

\* LindCageManager::new(0) followed by lind_manager.increment().
LaunchCount == 0 + 1

\* The launch up to the point where the entry function runs: the cage
\* manager is created at 0 and incremented, the allocator is created at 1,
\* the four contexts are attached to the host, and load_main_module
\* registers the main thread of cage CAGE_START_ID.
Execute ==
    /\ phase = "start"
    /\ phase' = "up"
    /\ lind_manager' = LaunchCount
    /\ allocators' = <<1>>
    /\ preview1' = <<FullArgs(UnwrapOrDefault(package).args)>>
    /\ common' = <<[pid |-> CAGE_START_ID, next_cageid |-> 1]>>
    /\ forkc' = <<[pid |-> CAGE_START_ID, next_cageid |-> 1, conf |-> package]>>
    /\ arcs' = 1
    /\ cages' = <<[host |-> [preview1_ctx |-> 1, wasi_threads |-> 1,
                             lind_common_ctx |-> 1, lind_fork_ctx |-> 1],
                   pid |-> CAGE_START_ID,
                   parent |-> 0,
                   pending |-> 0, code |-> 0, decs |-> 0, trueobs |-> 0,
                   image |-> 0,
                   pc |-> [NoThreads EXCEPT ![THREAD_START_ID] = "run"]]>>
    /\ epoch_handler' = SignalInit(epoch_handler, CAGE_START_ID, THREAD_START_ID)
    /\ UNCHANGED <<package, exit_calls, ops, last_exec, wasm, loader,
                   toplevel, setup, unit>>

\* ------------------------------------------------------------ fork
\* fork_call, first half: the child's identity is one atomic increment of
\* the allocator the calling cage's LindCtx holds.
ForkAlloc(c) ==
    /\ phase = "up"
    /\ Running(c)
    /\ cages[c].pending = 0
    /\ cages[c].host.lind_fork_ctx # None
    /\ ops < MaxOps
    /\ ops' = ops + 1
    /\ LET a == forkc[cages[c].host.lind_fork_ctx].next_cageid
       IN  /\ allocators' = [allocators EXCEPT ![a] = @ + 1]
           /\ cages' = [cages EXCEPT ![c].pending = allocators[a] + 1]
    /\ UNCHANGED <<phase, package, lind_manager, preview1, common, forkc, arcs,
                   epoch_handler, exit_calls, last_exec, wasm, loader,
                   toplevel, setup, unit>>

\* fork_call, second half: the child's host is HostCtx::fork of the
\* parent's, the child's contexts take the allocated identity, the cage
\* manager counts the new cage and its main thread is registered.
ForkSpawn(c) ==
    /\ phase = "up"
    /\ cages[c].pending # 0
    /\ LET r   == HostCtx_fork(cages[c].host)
           id  == cages[c].pending
           ch  == r.child
       IN  /\ preview1' = r.preview1
           /\ common' = IF ch.lind_common_ctx = None THEN r.common
                        ELSE [r.common EXCEPT ![ch.lind_common_ctx].pid = id]
           /\ forkc' = IF ch.lind_fork_ctx = None THEN r.forkc
                       ELSE [r.forkc EXCEPT ![ch.lind_fork_ctx].pid = id]
           /\ arcs' = r.arcs
           /\ allocators' = r.allocators
           /\ cages' = Append([cages EXCEPT ![c].pending = 0],
                              [host |-> ch, pid |-> id, parent |-> c, pending |-> 0,
                               code |-> 0, decs |-> 0, trueobs |-> 0,
                               image |-> cages[c].image,
                               pc |-> [NoThreads EXCEPT ![THREAD_START_ID] = "run"]])
           /\ epoch_handler' = SignalInit(epoch_handler, id, THREAD_START_ID)
    /\ lind_manager' = lind_manager + 1
    /\ UNCHANGED <<phase, package, exit_calls, ops, last_exec, wasm, loader,
                   toplevel, setup, unit>>

\* An exec that keeps the Host Context of the calling image and rewrites it
\* in place.
ExecuteWithLind_inplace(c, config, pid, next_cageid) ==
    /\ preview1' = [preview1 EXCEPT ![cages[c].host.preview1_ctx] =
                                       FullArgs(UnwrapOrDefault(config).args)]
    /\ allocators' = Append(allocators, 1)
    /\ common' = common
    /\ forkc' = [forkc EXCEPT ![cages[c].host.lind_fork_ctx].conf = config]
    /\ arcs' = arcs
    /\ cages' = [cages EXCEPT ![c].host.wasi_threads = @,
                              ![c].image = ExecEngine(cages[c].image, ops + 1)]
    /\ epoch_handler' = SignalInit(epoch_handler, pid, THREAD_START_ID)

\* ------------------------------------------------------------ exec
\* Runtime::execute_with_lind(webasm, config, lind_manager, pid, next_cageid)
\* for the cage in slot c: a host built from HostCtx::default(), a new
\* WasiCtx with the placeholder and the configured args, the Arc created as
\* shared_next_cageid, new LindCommonCtx and LindCtx with the given pid, a
\* new thread pool, and load_main_module under pid.
ExecuteWithLind(c, config, pid, next_cageid) ==
    LET shared_next_cageid == Fresh(allocators)
        a == ExecAllocator(next_cageid, shared_next_cageid)
    IN  /\ preview1' = Append(preview1, FullArgs(UnwrapOrDefault(config).args))
        /\ allocators' = Append(allocators, 1)
        /\ common' = Append(common, [pid |-> pid, next_cageid |-> a])
        /\ forkc' = Append(forkc, [pid |-> pid, next_cageid |-> a, conf |-> config])
        /\ arcs' = arcs + 1
        /\ cages' = [cages EXCEPT
                        ![c].host = [preview1_ctx    |-> Fresh(preview1),
                                     wasi_threads    |-> arcs + 1,
                                     lind_common_ctx |-> Fresh(common),
                                     lind_fork_ctx   |-> Fresh(forkc)],
                        ![c].pid = pid,
                        ![c].image = ExecEngine(cages[c].image, ops + 1)]
        /\ epoch_handler' = SignalInit(epoch_handler, pid, THREAD_START_ID)

\* execve_call reaches the exec closure of the calling cage's LindCtx with
\* that context's configuration, pid and allocator and the raw arguments.
Exec(c, raw) ==
    /\ phase = "up"
    /\ cages[c].pc[THREAD_START_ID] = "run"
    /\ cages[c].host.lind_fork_ctx # None
    /\ ops < MaxOps
    /\ LET ctx == forkc[cages[c].host.lind_fork_ctx]
       IN  /\ ExecuteWithLind(c, NewEnarxConf(ctx.conf, raw), ctx.pid, ctx.next_cageid)
           /\ last_exec' = [cage |-> c, raw |-> raw, pre |-> ctx.conf,
                             pid |-> cages[c].pid]
    /\ ops' = ops + 1
    /\ UNCHANGED <<phase, package, lind_manager, exit_calls, wasm, loader,
                   toplevel, setup, unit>>

\* ------------------------------------------------------------ module code
\* Module code reaches its WasiCtx through AsMut<WasiCtx> for HostCtx and
\* grows its argument vector.
MutateArgs(c) ==
    /\ phase = "up"
    /\ Running(c)
    /\ cages[c].host.preview1_ctx # None
    /\ ops < MaxOps
    /\ ops' = ops + 1
    /\ preview1' = [preview1 EXCEPT ![cages[c].host.preview1_ctx] = Append(@, "m")]
    /\ UNCHANGED <<phase, package, allocators, lind_manager, common, forkc, arcs,
                   cages, epoch_handler, exit_calls, last_exec, wasm, loader,
                   toplevel, setup, unit>>

\* ------------------------------------------------------------ threads
\* wasi-threads: a running thread of the cage starts another one, which is
\* registered with the cage's thread table under the next thread id.
SpawnThread(c) ==
    /\ phase = "up"
    /\ Running(c)
    /\ ops < MaxOps
    /\ ops' = ops + 1
    /\ \E t \in Tids :
        /\ cages[c].pc[t] = "none"
        /\ \A u \in Tids : u < t => cages[c].pc[u] # "none"
        /\ cages' = [cages EXCEPT ![c].pc[t] = "run"]
        /\ epoch_handler' = SignalInit(epoch_handler, cages[c].pid, t)
    /\ UNCHANGED <<phase, package, allocators, lind_manager, preview1, common,
                   forkc, arcs, exit_calls, last_exec, wasm, loader,
                   toplevel, setup, unit>>

\* The exit of a thread the library runs (every thread but the initial
\* cage's main thread): the last-thread check, and on the last thread the
\* cage's exit syscall and the cage manager's decrement, as one step.
LibThreadExit(c, t) ==
    /\ phase = "up"
    /\ ~(c = 1 /\ t = THREAD_START_ID)
    /\ cages[c].pc[t] = "run"
    /\ LET pid    == cages[c].pid
           isLast == ThreadExitLast(epoch_handler, pid, t)
       IN  /\ epoch_handler' = ThreadExitTable(epoch_handler, pid, t)
           /\ cages' = [cages EXCEPT
                           ![c].pc[t] = "done",
                           ![c].trueobs = IF isLast THEN @ + 1 ELSE @,
                           ![c].decs = IF isLast THEN @ + 1 ELSE @]
           /\ exit_calls' = IF isLast
                            THEN [exit_calls EXCEPT ![pid] = Append(@, I32AsU64(0))]
                            ELSE exit_calls
           /\ lind_manager' = IF isLast THEN lind_manager - 1 ELSE lind_manager
    /\ UNCHANGED <<phase, package, allocators, preview1, common, forkc, arcs, ops, last_exec, wasm, loader,
                   toplevel, setup, unit>>

\* ------------------------------------------------------------ end of execute
\* What load_main_module hands back to Runtime::execute.
I32(n) == [ty |-> "i32", v |-> n]

I64(n) == [ty |-> "i64", v |-> n]

Outcomes ==
    { [ok |-> TRUE, vals |-> <<>>, err |-> ""],
      [ok |-> TRUE, vals |-> <<I32(7)>>, err |-> ""],
      [ok |-> TRUE, vals |-> <<I64(5)>>, err |-> ""],
      [ok |-> FALSE, vals |-> <<>>, err |-> "not enough arguments for invoke"] }

\* An exit code that ignores what the entry function returned.
ExitCode_zero(retval) == 0

\* let mut code = 0; if let Val::I32(res) = retval { code = *res; }
ExitCode(retval) == IF retval.ty = "i32" THEN retval.v ELSE 0

\* wasi_common::maybe_exit_on_error: an I32Exit ends the process with its
\* status, a trap ends it abnormally, any other error is handed back as it
\* is.
MaybeExitOnError(e) ==
    CASE e = "I32Exit(3) in _initialize" -> [how |-> "exited", code |-> 3, err |-> e]
      [] e = "trap in _initialize"       -> [how |-> "aborted", code |-> 0, err |-> e]
      [] OTHER                           -> [how |-> "returned", code |-> 0, err |-> e]

\* A launch that returns the loader's error as it got it.
MapError_raw(e) == [how |-> "returned", code |-> 0, err |-> e]

\* Err(e) => return Err(wasi_common::maybe_exit_on_error(e))
MapError(e) == MaybeExitOnError(e)

\* A launch that sends an error down the exit path of a finished program.
AfterMatch_cleanup(out, mapped) ==
    IF ~out.ok THEN "exiting"
    ELSE IF Len(out.vals) = 0 THEN "panicked" ELSE "exiting"

\* Where the match on the loader's result takes the main thread: the Err
\* arm leaves the function (or the process), the Ok arm unwraps res.get(0),
\* which panics on an empty list, and goes on to the thread exit.
AfterMatch(out, mapped) ==
    IF ~out.ok THEN (IF mapped.how = "returned" THEN "failed" ELSE mapped.how)
    ELSE IF Len(out.vals) = 0 THEN "panicked" ELSE "exiting"

\* match result { Ok(ref res) => { .. code .. } Err(e) => return Err(..) }
MainReturn(out) ==
    /\ phase = "up"
    /\ cages[1].pc[THREAD_START_ID] = "run"
    /\ LET mapped == MapError(out.err)
           to     == AfterMatch(out, mapped)
       IN  /\ cages' = [cages EXCEPT
                           ![1].pc[THREAD_START_ID] = to,
                           ![1].code = IF out.ok /\ Len(out.vals) > 0
                                       THEN ExitCode(out.vals[1]) ELSE @]
           /\ toplevel' =
                 IF ~out.ok
                 THEN [state |-> mapped.how, ok |-> FALSE, vals |-> <<>>,
                       err |-> mapped.err, code |-> mapped.code]
                 ELSE IF Len(out.vals) = 0
                      THEN [toplevel EXCEPT !.state = "panicked"]
                      ELSE [toplevel EXCEPT !.vals = out.vals]
    /\ UNCHANGED <<phase, package, allocators, lind_manager, preview1, common,
                   forkc, arcs, epoch_handler, exit_calls, ops, last_exec, wasm, loader,
                   setup, unit>>

\* A launch that cleans the cage up whatever lind_thread_exit answered.
CleanCage_always(isLast) == TRUE

\* A launch that never cleans the cage up.
CleanCage_never(isLast) == FALSE

\* if lind_thread_exit(..) { .. }: the cage is cleaned only when the call
\* says this was the last thread.
CleanCage(isLast) == isLast

\* The cleanup with the two calls the other way round.
CleanupSteps_swapped == <<"decrement", "exit_syscall">>

\* The body of that if, in program order: lind_syscall_api(1, EXIT_SYSCALL,
\* .., code, ..), then lind_manager.decrement().
CleanupSteps == <<"exit_syscall", "decrement">>

\* lind_thread_exit(CAGE_START_ID, THREAD_START_ID) and the test of its
\* answer.
MainThreadExit ==
    /\ phase = "up"
    /\ cages[1].pc[THREAD_START_ID] = "exiting"
    /\ LET isLast == ThreadExitLast(epoch_handler, CAGE_START_ID, THREAD_START_ID)
       IN  /\ epoch_handler' =
                ThreadExitTable(epoch_handler, CAGE_START_ID, THREAD_START_ID)
           /\ cages' = [cages EXCEPT
                           ![1].pc[THREAD_START_ID] =
                                IF CleanCage(isLast) THEN "clean1" ELSE "done",
                           ![1].trueobs = IF isLast THEN @ + 1 ELSE @]
           /\ toplevel' = IF CleanCage(isLast) THEN toplevel
                          ELSE [toplevel EXCEPT !.state = "returned"]
    /\ UNCHANGED <<phase, package, allocators, lind_manager, preview1, common,
                   forkc, arcs, exit_calls, ops, last_exec, wasm, loader,
                   setup, unit>>

\* One call of the cleanup: the i-th of CleanupSteps.
MainCleanup(i) ==
    /\ phase = "up"
    /\ cages[1].pc[THREAD_START_ID] = (IF i = 1 THEN "clean1" ELSE "clean2")
    /\ LET step == CleanupSteps[i]
       IN  /\ exit_calls' = IF step = "exit_syscall"
                            THEN [exit_calls EXCEPT ![1] =
                                            Append(@, I32AsU64(cages[1].code))]
                            ELSE exit_calls
           /\ lind_manager' = IF step = "decrement" THEN lind_manager - 1
                              ELSE lind_manager
           /\ cages' = [cages EXCEPT
                           ![1].pc[THREAD_START_ID] = IF i = 1 THEN "clean2" ELSE "done",
                           ![1].decs = IF step = "decrement" THEN @ + 1 ELSE @]
           /\ toplevel' = IF i = 1 THEN toplevel
                          ELSE [toplevel EXCEPT !.state = "returned"]
    /\ UNCHANGED <<phase, package, allocators, preview1, common, forkc, arcs,
                   epoch_handler, ops, last_exec, wasm, loader,
                   setup, unit>>

\* ------------------------------------------------------------ the module
\* Option<Func>: NoFunc is None, Some(f) holds f.
NoFunc == <<>>

\* An exported function: its export name, its parameter types, the values a
\* call writes into the results when it returns, and whether a call traps.
Func(name, params, rets, traps) ==
    [name |-> name, params |-> params, rets |-> rets, traps |-> traps]

\* Val::null_func_ref()
NullFuncRef == [ty |-> "funcref", v |-> 0]

\* The functions a module may export as "_start".
StartFuncs ==
    { Func("_start", <<>>, <<>>, FALSE),
      Func("_start", <<>>, <<>>, TRUE),
      Func("_start", <<>>, <<I32(7)>>, FALSE),
      Func("_start", <<>>, <<I32(7)>>, TRUE),
      Func("_start", <<>>, <<I32(-1)>>, FALSE),
      Func("_start", <<>>, <<I32(-2147483647 - 1)>>, FALSE),
      Func("_start", <<>>, <<I32(2147483647)>>, FALSE),
      Func("_start", <<>>, <<I64(5)>>, FALSE),
      Func("_start", <<"i32">>, <<I32(7)>>, FALSE),
      Func("_start", <<"i32">>, <<I32(7)>>, TRUE),
      Func("_start", <<"i32", "i64">>, <<I32(7)>>, FALSE),
      Func("_start", <<"f32", "f64">>, <<>>, FALSE),
      Func("_start", <<"funcref">>, <<>>, FALSE),
      Func("_start", <<"i32", "funcref">>, <<>>, FALSE) }

\* The modules: an "_initialize" export (absent, returning, trapping, or
\* ending the process with proc_exit(3)), an
\* export under the empty name, an export "_start", the stack exports, and
\* the export "epoch" (a global, or absent).
Modules ==
    [ init  : {"absent", "ok", "trap", "exit"},
      empty : {NoFunc, Some(Func("", <<>>, <<I32(3)>>, FALSE))},
      start : {NoFunc} \cup {Some(f) : f \in StartFuncs},
      stack : BOOLEAN,
      epoch : {"global", "absent"} ]

\* The textual arguments handed to load_main_module.
TextArgs ==
    { <<>>, <<"7">>, <<"x">>, <<"7", "-1">>, <<"7", "x">>, <<"1.5", "7">>,
      <<"7", "7", "7">> }

\* ------------------------------------------------------------ invoke_func
\* str::parse::<i32>, ::<i64>, ::<f32>, ::<f64> on the texts of TextArgs:
\* does the text parse under the type?
Parses_any(ty, s) == TRUE

Parses(ty, s) ==
    CASE ty \in {"i32", "i64"} -> s \in {"7", "-1"}
      [] ty \in {"f32", "f64"} -> s \in {"7", "-1", "1.5"}
      [] OTHER                 -> FALSE

\* The integer a text parses to.
IntOf(s) == IF s = "7" THEN 7 ELSE IF s = "-1" THEN 0 - 1 ELSE 0

\* f32::to_bits and f64::to_bits of the parsed text, as 16-bit limbs.
F32Bits(s) ==
    CASE s = "7"   -> <<16608, 0>>
      [] s = "-1"  -> <<49024, 0>>
      [] s = "1.5" -> <<16320, 0>>
      [] OTHER     -> <<0, 0>>

F64Bits(s) ==
    CASE s = "7"   -> <<16412, 0, 0, 0>>
      [] s = "-1"  -> <<49136, 0, 0, 0>>
      [] s = "1.5" -> <<16376, 0, 0, 0>>
      [] OTHER     -> <<0, 0, 0, 0>>

\* The Val built from a text that parses under ty.
ParseVal(ty, s) ==
    CASE ty = "i32" -> I32(IntOf(s))
      [] ty = "i64" -> I64(IntOf(s))
      [] ty = "f32" -> [ty |-> "f32", v |-> F32Bits(s)]
      [] OTHER      -> [ty |-> "f64", v |-> F64Bits(s)]

\* An argument iterator that never runs out: a missing text reads as "7".
ArgAt_default(args, i) == IF i <= Len(args) THEN Some(args[i]) ELSE Some("7")

\* An iterator that hands the texts out from the right.
ArgAt_fromright(args, i) ==
    IF i <= Len(args) THEN Some(args[Len(args) + 1 - i]) ELSE <<>>

\* args.next() at the i-th parameter.
ArgAt(args, i) == IF i <= Len(args) THEN Some(args[i]) ELSE <<>>

\* The error the loop body raises at the i-th parameter, "" for none: the
\* text is taken first, then the parameter's type is matched.
ArgError(params, args, i) ==
    LET val_str == ArgAt(args, i)
    IN  IF val_str = <<>> THEN "not enough arguments for invoke"
        ELSE IF params[i] \in {"i32", "i64", "f32", "f64"}
             THEN IF Parses(params[i], val_str[1]) THEN "" ELSE "parse error"
             ELSE "unsupported argument type"

\* invoke_func(store, func, args): the values are built parameter by
\* parameter and the first error returns; the results start as null
\* funcrefs, the call writes them unless it traps, and the outcome of the
\* call is not looked at: the results are returned as Ok.
InvokeFunc(func, args) ==
    LET n    == Len(func.params)
        bad  == {i \in 1..n : ArgError(func.params, args, i) # ""}
        stop == CHOOSE i \in bad : \A j \in bad : i <= j
        values  == [i \in 1..n |-> ParseVal(func.params[i], ArgAt(args, i)[1])]
        results == [i \in 1..Len(func.rets) |-> NullFuncRef]
    IN  IF bad # {}
        THEN [ok |-> FALSE, vals |-> <<>>,
              err |-> ArgError(func.params, args, stop),
              called |-> FALSE, values |-> <<>>, warned |-> n > 0]
        ELSE [ok |-> TRUE,
              vals |-> IF func.traps THEN results ELSE func.rets,
              err |-> "",
              called |-> TRUE, values |-> values, warned |-> n > 0]

\* ------------------------------------------------------------ load_main_module
\* An entry of the loader's trace: what was called, for which cage and
\* thread, and the main-thread flag.
Ev(name, pid, tid, main) == [ev |-> name, pid |-> pid, tid |-> tid, main |-> main]

\* A loader that looks for "_start" first.
GetEntry_startfirst(module) ==
    IF module.start # NoFunc THEN module.start ELSE module.empty

\* instance.get_func("").or_else(|| instance.get_func("_start"))
GetEntry(module) == IF module.empty # NoFunc THEN module.empty ELSE module.start

\* A loader that goes on without the epoch global.
EpochFound_lenient(module) == TRUE

\* get_export("epoch").and_then(|export| export.into_global()) is Some
EpochFound(module) == module.epoch = "global"

\* A loader that calls the entry function before the signal set-up.
LoadSteps_entryfirst ==
    <<"initialize", "resolve", "stack", "epoch", "invoke", "signal_init",
      "signal_may_trigger">>

\* The statements of load_main_module after the instantiation, in program
\* order.
LoadSteps ==
    <<"initialize", "resolve", "stack", "epoch", "signal_init",
      "signal_may_trigger", "invoke">>

AtStep(name) == loader.pc = "loading" /\ LoadSteps[loader.i] = name

\* Control passes to the next statement; the last one is the function's
\* value.
Step(l) == IF l.i = Len(LoadSteps) THEN [l EXCEPT !.pc = "returned"]
           ELSE [l EXCEPT !.i = @ + 1]

\* A `?` on an Err: the function returns the error.
Return(l, err) ==
    [l EXCEPT !.pc = "returned",
              !.result = [ok |-> FALSE, vals |-> <<>>, err |-> err]]

\* if let Some(func) = get_func("_initialize") { func.typed()?.call(..)?; }
LoadInitialize ==
    /\ AtStep("initialize")
    /\ loader' =
         CASE wasm.module.init = "absent" -> Step(loader)
           [] wasm.module.init = "ok" ->
                Step([loader EXCEPT !.trace = Append(@, Ev("_initialize", wasm.pid, 0, FALSE))])
           [] wasm.module.init = "trap" ->
                Return([loader EXCEPT !.trace = Append(@, Ev("_initialize", wasm.pid, 0, FALSE))],
                       "trap in _initialize")
           [] OTHER ->
                Return([loader EXCEPT !.trace = Append(@, Ev("_initialize", wasm.pid, 0, FALSE))],
                       "I32Exit(3) in _initialize")
    /\ UNCHANGED <<phase, package, allocators, lind_manager, preview1, common,
                   forkc, arcs, cages, epoch_handler, exit_calls, ops,
                   last_exec, wasm,
                   toplevel, setup, unit>>

\* let func = get_func("").or_else(|| get_func("_start"));
LoadResolve ==
    /\ AtStep("resolve")
    /\ loader' = Step([loader EXCEPT !.func = GetEntry(wasm.module),
                                     !.trace = Append(@, Ev("resolve", wasm.pid, 0, FALSE))])
    /\ UNCHANGED <<phase, package, allocators, lind_manager, preview1, common,
                   forkc, arcs, cages, epoch_handler, exit_calls, ops,
                   last_exec, wasm,
                   toplevel, setup, unit>>

\* get_stack_low(..).unwrap(), get_stack_pointer(..).unwrap(),
\* set_stack_base, set_stack_top
LoadStack ==
    /\ AtStep("stack")
    /\ loader' = IF wasm.module.stack
                 THEN Step([loader EXCEPT
                              !.trace = Append(@, Ev("set_stack", wasm.pid, 0, FALSE))])
                 ELSE [loader EXCEPT !.pc = "panic"]
    /\ UNCHANGED <<phase, package, allocators, lind_manager, preview1, common,
                   forkc, arcs, cages, epoch_handler, exit_calls, ops,
                   last_exec, wasm,
                   toplevel, setup, unit>>

\* .expect("Failed to find epoch global export!") and get_handler
LoadEpoch ==
    /\ AtStep("epoch")
    /\ loader' = IF EpochFound(wasm.module) THEN Step(loader)
                 ELSE [loader EXCEPT !.pc = "panic"]
    /\ UNCHANGED <<phase, package, allocators, lind_manager, preview1, common,
                   forkc, arcs, cages, epoch_handler, exit_calls, ops,
                   last_exec, wasm,
                   toplevel, setup, unit>>

\* lind_signal_init(pid, pointer, THREAD_START_ID, true)
LoadSignalInit ==
    /\ AtStep("signal_init")
    /\ epoch_handler' = SignalInit(epoch_handler, wasm.pid, THREAD_START_ID)
    /\ loader' = Step([loader EXCEPT
                         !.trace = Append(@, Ev("lind_signal_init", wasm.pid,
                                                THREAD_START_ID, TRUE))])
    /\ UNCHANGED <<phase, package, allocators, lind_manager, preview1, common,
                   forkc, arcs, cages, exit_calls, ops, last_exec, wasm,
                   toplevel, setup, unit>>

\* signal_may_trigger(pid)
LoadSignalMayTrigger ==
    /\ AtStep("signal_may_trigger")
    /\ loader' = Step([loader EXCEPT
                         !.trace = Append(@, Ev("signal_may_trigger", wasm.pid, 0, FALSE))])
    /\ UNCHANGED <<phase, package, allocators, lind_manager, preview1, common,
                   forkc, arcs, cages, epoch_handler, exit_calls, ops,
                   last_exec, wasm,
                   toplevel, setup, unit>>

\* match func { Some(func) => invoke_func(store, func, &args), None => Ok(vec![]) }
LoadInvoke ==
    /\ AtStep("invoke")
    /\ loader' =
         IF loader.func = NoFunc
         THEN Step([loader EXCEPT !.result = [ok |-> TRUE, vals |-> <<>>, err |-> ""]])
         ELSE LET func == loader.func[1]
                  r    == InvokeFunc(func, wasm.args)
              IN  Step([loader EXCEPT
                          !.result = [ok |-> r.ok, vals |-> r.vals, err |-> r.err],
                          !.calls = IF r.called THEN @ + 1 ELSE @,
                          !.trapped = r.called /\ func.traps,
                          !.values = r.values,
                          !.trace = IF r.called
                                    THEN Append(@, Ev("call", wasm.pid, 0, FALSE))
                                    ELSE @])
    /\ UNCHANGED <<phase, package, allocators, lind_manager, preview1, common,
                   forkc, arcs, cages, epoch_handler, exit_calls, ops,
                   last_exec, wasm,
                   toplevel, setup, unit>>

\* An exec that ends like the launch, with the match on the result.
ReturnPath_match(caller) == "match"

\* What the caller of load_main_module does with its result: Runtime::execute
\* matches on it, Runtime::execute_with_lind ends with the expression
\* `result`.
ReturnPath(caller) == IF caller = "execute" THEN "match" ELSE "result"

\* Runtime::execute takes the loader's result into its match.
LoadReturn ==
    /\ loader.pc = "returned"
    /\ ReturnPath(wasm.caller) = "match"
    /\ MainReturn(loader.result)

\* Runtime::execute_with_lind returns the loader's result as it is.
LoadHandBack ==
    /\ loader.pc = "returned"
    /\ ReturnPath(wasm.caller) = "result"
    /\ loader' = [loader EXCEPT !.pc = "handed"]
    /\ UNCHANGED <<phase, package, allocators, lind_manager, preview1, common,
                   forkc, arcs, cages, epoch_handler, exit_calls, ops,
                   last_exec, wasm,
                   toplevel, setup, unit>>

\* ------------------------------------------------------------ HostCtx::fork alone
\* HostCtx::fork applied to host contexts in any state of initialisation:
\* every sub-state present or absent, independently.
Presence == {None, 1}

UnitInit ==
    /\ phase = "unit"
    /\ package \in Packages
    /\ allocators \in {<<1>>, <<2>>}
    /\ lind_manager = 0
    /\ preview1 \in {<<FullArgs(<<>>)>>, <<FullArgs(<<"x">>)>>}
    /\ common = <<[pid |-> CAGE_START_ID, next_cageid |-> 1]>>
    /\ forkc = <<[pid |-> CAGE_START_ID, next_cageid |-> 1, conf |-> package]>>
    /\ arcs = 1
    /\ \E p \in Presence, w \in Presence, lc \in Presence, lf \in Presence :
          cages = <<[host |-> [preview1_ctx |-> p, wasi_threads |-> w,
                               lind_common_ctx |-> lc, lind_fork_ctx |-> lf],
                     pid |-> CAGE_START_ID, parent |-> 0,
                     pending |-> 0, code |-> 0, decs |-> 0, trueobs |-> 0,
                     image |-> 0, pc |-> NoThreads]>>
    /\ epoch_handler = [p \in Pids |-> {}]
    /\ exit_calls = [p \in Pids |-> <<>>]
    /\ ops = 0
    /\ last_exec = [cage |-> 0, raw |-> <<>>, pre |-> NoConfig, pid |-> 0]
    /\ wasm = NoWasm
    /\ loader = LoaderIdle
    /\ toplevel = Running1
    /\ setup = SetupIdle
    /\ unit = NoUnit

\* child = cages[c].host.fork()
UnitFork(c) ==
    /\ phase = "unit"
    /\ ops < MaxOps
    /\ ops' = ops + 1
    /\ LET r == HostCtx_fork(cages[c].host)
       IN  /\ preview1' = r.preview1
           /\ common' = r.common
           /\ forkc' = r.forkc
           /\ arcs' = r.arcs
           /\ allocators' = r.allocators
           /\ cages' = Append(cages, [cages[c] EXCEPT !.host = r.child, !.parent = c])
    /\ UNCHANGED <<phase, package, lind_manager, epoch_handler, exit_calls, last_exec, wasm, loader,
                   toplevel, setup, unit>>

\* A holder of a context changes its argument vector through AsMut<WasiCtx>.
UnitMutate(c) ==
    /\ phase = "unit"
    /\ ops < MaxOps
    /\ ops' = ops + 1
    /\ cages[c].host.preview1_ctx # None
    /\ preview1' = [preview1 EXCEPT ![cages[c].host.preview1_ctx] = Append(@, "m")]
    /\ UNCHANGED <<phase, package, allocators, lind_manager, common, forkc, arcs,
                   cages, epoch_handler, exit_calls, last_exec, wasm, loader,
                   toplevel, setup, unit>>

UnitNext ==
    \/ \E c \in Slots : UnitFork(c)
    \/ \E c \in Slots : UnitMutate(c)

ForkSpec == UnitInit /\ [][UnitNext]_vars

\* ------------------------------------------------------------ the loader alone
\* The main cage as Runtime::execute has set it up when it calls
\* load_main_module.
MainCage ==
    [host |-> [preview1_ctx |-> 1, wasi_threads |-> 1,
               lind_common_ctx |-> 1, lind_fork_ctx |-> 1],
     pid |-> CAGE_START_ID, parent |-> 0,
     pending |-> 0, code |-> 0, decs |-> 0, trueobs |-> 0, image |-> 0,
     pc |-> [NoThreads EXCEPT ![THREAD_START_ID] = "run"]]

\* load_main_module entered for any module and textual arguments, either by
\* Runtime::execute for the main cage, or by Runtime::execute_with_lind for
\* a cage with identity 2 that the main cage forked and that calls exec.
LoadInit ==
    \E module \in Modules, args \in TextArgs,
       caller \in {"execute", "execute_with_lind"} :
       /\ phase = "up"
       /\ loader = [LoaderIdle EXCEPT !.pc = "loading", !.i = 1]
       /\ toplevel = Running1
       /\ setup = SetupIdle
       /\ unit = NoUnit
       /\ exit_calls = [p \in Pids |-> <<>>]
       /\ IF caller = "execute"
          THEN /\ wasm = [module |-> module, args |-> args, caller |-> caller,
                          pid |-> CAGE_START_ID]
               /\ package = Some(Config(NoSteward, args, <<>>, <<>>))
               /\ allocators = <<1>>
               /\ lind_manager = LaunchCount
               /\ preview1 = <<FullArgs(args)>>
               /\ common = <<[pid |-> CAGE_START_ID, next_cageid |-> 1]>>
               /\ forkc = <<[pid |-> CAGE_START_ID, next_cageid |-> 1,
                             conf |-> package]>>
               /\ arcs = 1
               /\ cages = <<MainCage>>
               /\ epoch_handler = [p \in Pids |-> {}]
               /\ ops = 0
               /\ last_exec = [cage |-> 0, raw |-> <<>>, pre |-> NoConfig, pid |-> 0]
          ELSE /\ wasm = [module |-> module, args |-> args, caller |-> caller,
                          pid |-> 2]
               /\ package = NoConfig
               /\ allocators = <<2, 1>>
               /\ lind_manager = LaunchCount + 1
               /\ preview1 = <<FullArgs(<<>>), FullArgs(<<>>), FullArgs(args)>>
               /\ common = <<[pid |-> CAGE_START_ID, next_cageid |-> 1],
                             [pid |-> 2, next_cageid |-> 1],
                             [pid |-> 2, next_cageid |-> 1]>>
               /\ forkc = <<[pid |-> CAGE_START_ID, next_cageid |-> 1,
                             conf |-> NoConfig],
                            [pid |-> 2, next_cageid |-> 1, conf |-> NoConfig],
                            [pid |-> 2, next_cageid |-> 1,
                             conf |-> NewEnarxConf(NoConfig, <<"prog">> \o args)]>>
               /\ arcs = 2
               /\ cages = <<MainCage,
                            [host |-> [preview1_ctx |-> 3, wasi_threads |-> 2,
                                       lind_common_ctx |-> 3, lind_fork_ctx |-> 3],
                             pid |-> 2, parent |-> 1,
                             pending |-> 0, code |-> 0, decs |-> 0, trueobs |-> 0,
                             image |-> 2,
                             pc |-> [NoThreads EXCEPT ![THREAD_START_ID] = "run"]]>>
               /\ epoch_handler = [p \in Pids |->
                                     IF p <= 2 THEN {THREAD_START_ID} ELSE {}]
               /\ ops = 2
               /\ last_exec = [cage |-> 2, raw |-> <<"prog">> \o args,
                               pre |-> NoConfig, pid |-> 2]

LoadNext ==
    \/ LoadInitialize
    \/ LoadResolve
    \/ LoadStack
    \/ LoadEpoch
    \/ LoadSignalInit
    \/ LoadSignalMayTrigger
    \/ LoadInvoke
    \/ LoadReturn
    \/ LoadHandBack
    \/ MainThreadExit
    \/ \E i \in 1..2 : MainCleanup(i)

LoadSpec == LoadInit /\ [][LoadNext]_vars

\* The launch and the exec are straight-line code on one thread: a statement
\* that can be executed is executed.
LoadLiveSpec == LoadInit /\ [][LoadNext]_vars /\ WF_vars(LoadNext)

\* ------------------------------------------------------------ the set-up alone
\* workload.rs: the sizes the package loader declares as maxima.
MAX_WASM_SIZE == 100000000

MAX_CONF_SIZE == 1000000

\* What reading the file descriptors of Package::Local yields: the number of
\* bytes read_to_end delivers, whether the read succeeds, and for Enarx.toml
\* whether toml::from_slice accepts the bytes and the Config they denote.
WasmFiles == [len : {0, MAX_WASM_SIZE, MAX_WASM_SIZE + 1}, readable : BOOLEAN]

ConfFiles ==
    [len : {0, MAX_CONF_SIZE, MAX_CONF_SIZE + 1}, readable : BOOLEAN,
     parses : BOOLEAN,
     config : {DefaultConfig, Config("url", <<"x", "y">>, <<"f">>, <<"e">>)}]

LocalPackages == [wasm : WasmFiles, conf : {<<>>} \cup {<<f>> : f \in ConfFiles}]

\* Workload { webasm, config }; webasm is kept as its length.
Workload(webasm, config) == [webasm |-> webasm, config |-> config]

\* A loader that goes on without configuration when Enarx.toml cannot be
\* read or parsed.
TryFromPackage_lenient(pkg) ==
    IF ~pkg.wasm.readable
    THEN [ok |-> FALSE, err |-> "failed to read WASM module", workload |-> <<>>]
    ELSE IF pkg.conf = <<>> \/ ~pkg.conf[1].readable \/ ~pkg.conf[1].parses
    THEN [ok |-> TRUE, err |-> "",
          workload |-> <<Workload(pkg.wasm.len, NoConfig)>>]
    ELSE [ok |-> TRUE, err |-> "",
          workload |-> <<Workload(pkg.wasm.len, Some(pkg.conf[1].config))>>]

\* impl TryFrom<Package> for Workload
TryFromPackage(pkg) ==
    IF ~pkg.wasm.readable
    THEN [ok |-> FALSE, err |-> "failed to read WASM module", workload |-> <<>>]
    ELSE IF pkg.conf = <<>>
    THEN [ok |-> TRUE, err |-> "",
          workload |-> <<Workload(pkg.wasm.len, NoConfig)>>]
    ELSE IF ~pkg.conf[1].readable
    THEN [ok |-> FALSE, err |-> "failed to read config", workload |-> <<>>]
    ELSE IF ~pkg.conf[1].parses
    THEN [ok |-> FALSE, err |-> "failed to parse config", workload |-> <<>>]
    ELSE [ok |-> TRUE, err |-> "",
          workload |-> <<Workload(pkg.wasm.len, Some(pkg.conf[1].config))>>]

\* The statements of Runtime::execute up to the call of load_main_module,
\* in program order.
ExecuteSteps ==
    <<"identity", "try_into", "certs", "engine", "store", "compile",
      "cage_manager", "link_wasi", "wasi_ctx", "link_threads", "allocator",
      "link_common", "common_ctx", "fork_ctx", "threads_ctx", "load">>

\* An exec that calls the loader before it attaches the thread pool.
ExecuteWithLindSteps_loadfirst ==
    <<"engine", "store", "compile", "link_wasi", "wasi_ctx", "link_threads",
      "allocator", "link_common", "common_ctx", "fork_ctx", "load",
      "threads_ctx">>

\* The statements of Runtime::execute_with_lind, in program order.
ExecuteWithLindSteps ==
    <<"engine", "store", "compile", "link_wasi", "wasi_ctx", "link_threads",
      "allocator", "link_common", "common_ctx", "fork_ctx", "threads_ctx",
      "load">>

SetupSteps(caller) ==
    IF caller = "execute" THEN ExecuteSteps ELSE ExecuteWithLindSteps

\* The steps that end in `?`, and the one that ends in `.expect(..)`.
Fallible ==
    {"identity", "certs", "engine", "compile", "link_wasi", "link_threads",
     "link_common", "common_ctx", "fork_ctx", "threads_ctx"}

\* The error a failing step yields (library errors by their origin).
ErrorOf(s, conf) ==
    CASE s = "identity"     -> "failed to generate a private key and CSR"
      [] s = "certs"        -> IF UnwrapOrDefault(conf).steward # NoSteward
                               THEN "failed to attest to Steward"
                               ELSE "failed to generate self-signed certificates"
      [] s = "engine"       -> "failed to create execution engine"
      [] s = "compile"      -> "failed to compile Wasm module"
      [] s = "link_wasi"    -> "failed to setup linker and link WASI"
      [] s = "link_threads" -> "failed to setup linker and link WASI"
      [] s = "link_common"  -> "wasmtime_lind_common::add_to_linker"
      [] s = "common_ctx"   -> "LindCommonCtx::new"
      [] s = "fork_ctx"     -> "LindCtx::new"
      [] s = "threads_ctx"  -> "WasiThreadsCtx::new"
      [] OTHER              -> ""

SetupAt(s) ==
    /\ phase = "setup"
    /\ setup.pc = "running"
    /\ SetupSteps(setup.caller)[setup.i] = s

Attempt(st, s) == [st EXCEPT !.trace = Append(@, s)]

Proceed(st) == [st EXCEPT !.i = @ + 1]

\* An error that is swallowed: the set-up goes on with the next statement.
Bail_goon(st, err) == Proceed(st)

\* `?`: the function returns the error at once.
Bail(st, err) == [st EXCEPT !.pc = "returned", !.result = err]

\* `.expect(msg)` on an Err: the thread panics.
Panic(st, msg) == [st EXCEPT !.pc = "panicked", !.result = msg]

\* identity::generate, identity::steward / selfsigned, Engine::new,
\* Module::from_binary and the three add_to_linker calls: nothing of the
\* cage's state changes, the call either fails or the set-up goes on.
SetupFallible(s) ==
    /\ s \in Fallible \ {"common_ctx", "fork_ctx", "threads_ctx"}
    /\ SetupAt(s)
    /\ setup' = IF setup.fails = s
                THEN Bail(Attempt(setup, s), ErrorOf(s, package))
                ELSE Proceed(Attempt(setup, s))
    /\ UNCHANGED <<phase, package, allocators, lind_manager, preview1, common,
                   forkc, arcs, cages, epoch_handler, exit_calls, ops,
                   last_exec, wasm, loader, toplevel, unit>>

\* let Workload { webasm, config } = package.try_into()?;
SetupTryInto ==
    /\ SetupAt("try_into")
    /\ LET r == TryFromPackage(setup.input[1])
       IN  IF r.ok
           THEN /\ setup' = [Proceed(Attempt(setup, "try_into"))
                               EXCEPT !.workload = r.workload]
                /\ package' = r.workload[1].config
           ELSE /\ setup' = Bail(Attempt(setup, "try_into"), r.err)
                /\ UNCHANGED package
    /\ UNCHANGED <<phase, allocators, lind_manager, preview1, common,
                   forkc, arcs, cages, epoch_handler, exit_calls, ops,
                   last_exec, wasm, loader, toplevel, unit>>

\* let host = HostCtx::default(); Store::new(&engine, host)
SetupStore ==
    /\ SetupAt("store")
    /\ setup' = [Proceed(Attempt(setup, "store")) EXCEPT
                   !.host = [preview1_ctx |-> None, wasi_threads |-> None,
                             lind_common_ctx |-> None, lind_fork_ctx |-> None]]
    /\ UNCHANGED <<phase, package, allocators, lind_manager, preview1, common,
                   forkc, arcs, cages, epoch_handler, exit_calls, ops,
                   last_exec, wasm, loader, toplevel, unit>>

\* LindCageManager::new(0); lindrustinit(0); lind_manager.increment()
SetupCageManager ==
    /\ SetupAt("cage_manager")
    /\ lind_manager' = LaunchCount
    /\ setup' = Proceed(Attempt(setup, "cage_manager"))
    /\ UNCHANGED <<phase, package, allocators, preview1, common,
                   forkc, arcs, cages, epoch_handler, exit_calls, ops,
                   last_exec, wasm, loader, toplevel, unit>>

\* The WASI context: argv is the placeholder followed by the configured
\* arguments; the ambient directory is opened and pre-opened with expect.
SetupWasiCtx ==
    /\ SetupAt("wasi_ctx")
    /\ IF setup.fails = "wasi_ctx"
       THEN /\ setup' = Panic(Attempt(setup, "wasi_ctx"), "failed to open")
            /\ UNCHANGED preview1
       ELSE /\ preview1' = Append(preview1, FullArgs(UnwrapOrDefault(package).args))
            /\ setup' = [Proceed(Attempt(setup, "wasi_ctx")) EXCEPT
                           !.host.preview1_ctx = Fresh(preview1)]
    /\ UNCHANGED <<phase, package, allocators, lind_manager, common,
                   forkc, arcs, cages, epoch_handler, exit_calls, ops,
                   last_exec, wasm, loader, toplevel, unit>>

\* let shared_next_cageid = Arc::new(AtomicU64::new(1)); the launch hands it
\* to the contexts, execute_with_lind never uses its own.
SetupAllocator ==
    /\ SetupAt("allocator")
    /\ allocators' = Append(allocators, 1)
    /\ setup' = [Proceed(Attempt(setup, "allocator")) EXCEPT
                   !.next_cageid = IF setup.caller = "execute"
                                   THEN Fresh(allocators) ELSE @]
    /\ UNCHANGED <<phase, package, lind_manager, preview1, common,
                   forkc, arcs, cages, epoch_handler, exit_calls, ops,
                   last_exec, wasm, loader, toplevel, unit>>

\* lind_common_ctx = Some(LindCommonCtx::new(..)?) / new_with_pid(..)?
SetupCommonCtx ==
    /\ SetupAt("common_ctx")
    /\ IF setup.fails = "common_ctx"
       THEN /\ setup' = Bail(Attempt(setup, "common_ctx"),
                             ErrorOf("common_ctx", package))
            /\ UNCHANGED common
       ELSE /\ common' = Append(common, [pid |-> setup.pid,
                                         next_cageid |-> setup.next_cageid])
            /\ setup' = [Proceed(Attempt(setup, "common_ctx")) EXCEPT
                           !.host.lind_common_ctx = Fresh(common)]
    /\ UNCHANGED <<phase, package, allocators, lind_manager, preview1,
                   forkc, arcs, cages, epoch_handler, exit_calls, ops,
                   last_exec, wasm, loader, toplevel, unit>>

\* lind_fork_ctx = Some(LindCtx::new(..)?) / new_with_pid(..)?
SetupForkCtx ==
    /\ SetupAt("fork_ctx")
    /\ IF setup.fails = "fork_ctx"
       THEN /\ setup' = Bail(Attempt(setup, "fork_ctx"),
                             ErrorOf("fork_ctx", package))
            /\ UNCHANGED forkc
       ELSE /\ forkc' = Append(forkc, [pid |-> setup.pid,
                                       next_cageid |-> setup.next_cageid,
                                       conf |-> package])
            /\ setup' = [Proceed(Attempt(setup, "fork_ctx")) EXCEPT
                           !.host.lind_fork_ctx = Fresh(forkc)]
    /\ UNCHANGED <<phase, package, allocators, lind_manager, preview1,
                   common, arcs, cages, epoch_handler, exit_calls, ops,
                   last_exec, wasm, loader, toplevel, unit>>

\* wasi_threads = Some(Arc::new(WasiThreadsCtx::new(..)?))
SetupThreadsCtx ==
    /\ SetupAt("threads_ctx")
    /\ IF setup.fails = "threads_ctx"
       THEN /\ setup' = Bail(Attempt(setup, "threads_ctx"),
                             ErrorOf("threads_ctx", package))
            /\ UNCHANGED arcs
       ELSE /\ arcs' = arcs + 1
            /\ setup' = [Proceed(Attempt(setup, "threads_ctx")) EXCEPT
                           !.host.wasi_threads = arcs + 1]
    /\ UNCHANGED <<phase, package, allocators, lind_manager, preview1,
                   common, forkc, cages, epoch_handler, exit_calls, ops,
                   last_exec, wasm, loader, toplevel, unit>>

\* Runtime::load_main_module(&mut wstore, ..) is called: the store's context
\* is the context of the cage whose module is instantiated and run.
SetupLoad ==
    /\ SetupAt("load")
    /\ setup' = [Attempt(setup, "load") EXCEPT !.pc = "loading"]
    /\ phase' = "unit"
    /\ cages' = <<[MainCage EXCEPT !.host = setup.host, !.pid = setup.pid]>>
    /\ UNCHANGED <<package, allocators, lind_manager, preview1, common,
                   forkc, arcs, epoch_handler, exit_calls, ops,
                   last_exec, wasm, loader, toplevel, unit>>

\* Runtime::execute called on any local package, or execute_with_lind called
\* by the exec closure of cage 2 with the configuration the closure built;
\* at most one step of the set-up fails.
SetupInit ==
    \E caller \in {"execute", "execute_with_lind"},
       fails \in Fallible \cup {"wasi_ctx", ""} :
       /\ phase = "setup"
       /\ cages = <<>>
       /\ preview1 = <<>>
       /\ common = <<>>
       /\ forkc = <<>>
       /\ arcs = 0
       /\ epoch_handler = [p \in Pids |-> {}]
       /\ exit_calls = [p \in Pids |-> <<>>]
       /\ ops = 0
       /\ last_exec = [cage |-> 0, raw |-> <<>>, pre |-> NoConfig, pid |-> 0]
       /\ wasm = NoWasm
       /\ loader = LoaderIdle
       /\ toplevel = Running1
       /\ unit = NoUnit
       /\ IF caller = "execute"
          THEN /\ package = NoConfig
               /\ allocators = <<>>
               /\ lind_manager = 0
               /\ \E pkg \in LocalPackages :
                     setup = [SetupIdle EXCEPT !.pc = "running", !.i = 1,
                                !.caller = caller, !.fails = fails,
                                !.pid = CAGE_START_ID, !.input = <<pkg>>]
          ELSE /\ fails \in {ExecuteWithLindSteps[k] :
                                k \in 1..Len(ExecuteWithLindSteps)} \cup {""}
               /\ \E raw \in RawArgs, conf \in Packages :
                     package = NewEnarxConf(conf, raw)
               /\ allocators = <<2>>
               /\ lind_manager = LaunchCount + 1
               /\ setup = [SetupIdle EXCEPT !.pc = "running", !.i = 1,
                             !.caller = caller, !.fails = fails,
                             !.pid = 2, !.next_cageid = 1]

SetupNext ==
    \/ \E s \in Fallible : SetupFallible(s)
    \/ SetupTryInto
    \/ SetupStore
    \/ SetupCageManager
    \/ SetupWasiCtx
    \/ SetupAllocator
    \/ SetupCommonCtx
    \/ SetupForkCtx
    \/ SetupThreadsCtx
    \/ SetupLoad
    \/ \E c \in Slots : UnitFork(c)
    \/ \E c \in Slots : UnitMutate(c)

SetupSpec == SetupInit /\ [][SetupNext]_vars

\* ------------------------------------------------------------ sign_sev alone
\* size_of::<IdBlock>(): the length of the test vector SEV_IN that sign_sev
\* accepts.
SizeOfIdBlock == 96

\* A byte string of n bytes: all b, or (b = 256) the bytes 1, 2, 3, ..
Bytes(n, b) == [i \in 1..n |-> IF b = 256 THEN i % 256 ELSE b]

\* The id-block inputs: right and wrong lengths, three contents each.
IdBlocks ==
    { Bytes(n, b) : n \in {0, 1, SizeOfIdBlock - 1, SizeOfIdBlock,
                           SizeOfIdBlock + 1, 2 * SizeOfIdBlock},
                    b \in {0, 255, 256} }

\* The signing keys, and the `signature` inputs: shorter than an IdSignature
\* (the slice panics), one whose IdSignature or whose PublicKey part does not
\* parse, and a well-formed one.
SevKeys == {"id_key_1", "id_key_2"}

SevSignatures == {"short", "bad_signature", "bad_author_key", "valid"}

\* <[u8]>::to_vec: a new vector with the bytes of the slice, in order.
ToVec(bytes) == [i \in 1..Len(bytes) |-> bytes[i]]

\* A check that lets every length through.
LengthOk_any(id_block_bytes) == TRUE

\* id_block_bytes.len() != size_of::<IdBlock>() is false
LengthOk(id_block_bytes) == Len(id_block_bytes) = SizeOfIdBlock

SevErr(msg) == [how |-> "err", err |-> msg, id_block |-> <<>>, id_auth |-> <<>>]

\* sign_sev(id_block_bytes, sev_key, signature)
SignSev(id_block_bytes, sev_key, signature) ==
    IF ~LengthOk(id_block_bytes)
    THEN SevErr("Invalid length of SEV input data")
    ELSE IF signature = "short"
    THEN [how |-> "panic", err |-> "range end index out of range",
          id_block |-> <<>>, id_auth |-> <<>>]
    ELSE IF signature = "bad_signature"
    THEN SevErr("Failed to parse signature")
    ELSE IF signature = "bad_author_key"
    THEN SevErr("Failed to parse author public key")
    ELSE [how |-> "ok", err |-> "",
          id_block |-> ToVec(id_block_bytes),
          id_auth |-> <<1, 1, sev_key, signature>>]

SignInit ==
    /\ phase = "sign"
    /\ package = NoConfig
    /\ allocators = <<>>
    /\ lind_manager = 0
    /\ preview1 = <<>>
    /\ common = <<>>
    /\ forkc = <<>>
    /\ arcs = 0
    /\ cages = <<>>
    /\ epoch_handler = [p \in Pids |-> {}]
    /\ exit_calls = [p \in Pids |-> <<>>]
    /\ ops = 0
    /\ last_exec = [cage |-> 0, raw |-> <<>>, pre |-> NoConfig, pid |-> 0]
    /\ wasm = NoWasm
    /\ loader = LoaderIdle
    /\ toplevel = Running1
    /\ setup = SetupIdle
    /\ \E b \in IdBlocks, k \in SevKeys, s \in SevSignatures :
          unit = [fn |-> "sign_sev", arg |-> <<b, k, s>>, out |-> <<>>]

\* let out = sign_sev(id_block_bytes, sev_key, signature)
SignApply ==
    /\ phase = "sign"
    /\ unit.fn = "sign_sev"
    /\ unit.out = <<>>
    /\ unit' = [unit EXCEPT !.out = <<SignSev(unit.arg[1], unit.arg[2], unit.arg[3])>>]
    /\ UNCHANGED <<phase, package, allocators, lind_manager, preview1, common,
                   forkc, arcs, cages, epoch_handler, exit_calls, ops,
                   last_exec, wasm, loader, toplevel, setup>>

SignNext == SignApply

SignSpec == SignInit /\ [][SignNext]_vars

\* ------------------------------------------------------------ specification
Next ==
    \/ Execute
    \/ \E c \in Slots : ForkAlloc(c)
    \/ \E c \in Slots : ForkSpawn(c)
    \/ \E c \in Slots, raw \in RawArgs : Exec(c, raw)
    \/ \E c \in Slots : MutateArgs(c)
    \/ \E c \in Slots : SpawnThread(c)
    \/ \E c \in Slots, t \in Tids : LibThreadExit(c, t)
    \/ \E out \in Outcomes : MainReturn(out)
    \/ MainThreadExit
    \/ \E i \in 1..2 : MainCleanup(i)

Spec == Init /\ [][Next]_vars

\* ================================================================ claims
Max(a, b) == IF a >= b THEN a ELSE b

\* What a host context gives access to, handles resolved.
HostView(h) ==
    [argv   |-> IF h.preview1_ctx = None THEN <<>> ELSE <<preview1[h.preview1_ctx]>>,
     pool   |-> h.wasi_threads,
     common |-> IF h.lind_common_ctx = None THEN <<>> ELSE <<common[h.lind_common_ctx]>>,
     fork   |-> IF h.lind_fork_ctx = None THEN <<>> ELSE <<forkc[h.lind_fork_ctx]>>]

\* The identities a cage holds: the one it was instantiated under and the
\* ones in its cage-common and fork/exec contexts.
Ids(c) ==
    {cages[c].pid}
    \cup (IF cages[c].host.lind_common_ctx = None THEN {}
          ELSE {common[cages[c].host.lind_common_ctx].pid})
    \cup (IF cages[c].host.lind_fork_ctx = None THEN {}
          ELSE {forkc[cages[c].host.lind_fork_ctx].pid})

\* Does xs equal raw without its first element?
IsTail(xs, raw) ==
    /\ Len(xs) = Max(Len(raw) - 1, 0)
    /\ \A i \in 1..Len(xs) : xs[i] = raw[i + 1]

\* The configuration held by the cage of the last exec call.
ExecdConf == forkc[cages[last_exec.cage].host.lind_fork_ctx].conf

\* C1: no two cages hold the same cage identity, across every interleaving
\* of forks and execs; the initial cage holds CAGE_START_ID; an identity
\* allocated for a fork that has not spawned its cage yet belongs to no
\* cage and to no other pending fork.
C1_CageIdentityUnique ==
    /\ \A c, d \in Slots : c # d => Ids(c) \cap Ids(d) = {}
    /\ \A c \in Slots : Cardinality(Ids(c)) = 1
    /\ Len(cages) >= 1 => cages[1].pid = CAGE_START_ID
    /\ \A c, d \in Slots :
          cages[c].pending # 0 =>
             /\ cages[c].pending \notin Ids(d)
             /\ (d # c => cages[d].pending # cages[c].pending)

\* A cage forked before an exec, and a cage forked by the exec'd image.
C1_Witness ==
    /\ Len(cages) = 3
    /\ last_exec.cage # 0
    /\ \E c, d \in Slots :
          /\ cages[c].parent # 0 /\ cages[d].parent = last_exec.cage
          /\ cages[c].image = 0
          /\ cages[d].image # 0

\* C2: the cage manager is decremented at most once for a cage, never
\* without an exit observation that answered true, a true answer is given
\* only when no thread of the cage is left to run or to exit, and a cage
\* all of whose threads have exited has been decremented exactly once.
C2_DecrementOncePerCage ==
    \A c \in Slots :
        /\ cages[c].decs <= 1
        /\ cages[c].decs <= cages[c].trueobs
        /\ cages[c].trueobs <= 1
        /\ cages[c].trueobs >= 1 =>
              \A t \in Tids : cages[c].pc[t] \notin {"run", "exiting"}
        /\ (\A t \in Tids : cages[c].pc[t] \in {"none", "done"}) /\ phase = "up"
              => cages[c].decs = 1

\* The initial cage with three threads, all exited, decremented once.
C2_Witness ==
    /\ Len(cages) >= 1
    /\ Cardinality({t \in Tids : cages[1].pc[t] = "done"}) = 3
    /\ cages[1].decs = 1

\* C3: a cage whose decrement has been made has had its exit syscall
\* issued before, and has no thread still running; on the launch's own
\* path, after the first cleanup call the exit syscall has been issued
\* with the exit code and the decrement has not been made yet.
C3_ExitSyscallBeforeDecrement ==
    /\ \A c \in Slots :
          cages[c].decs >= 1 =>
              /\ Len(exit_calls[cages[c].pid]) >= cages[c].decs
              /\ \A t \in Tids : cages[c].pc[t] \notin {"run", "exiting"}
    /\ (Len(cages) >= 1 /\ cages[1].pc[THREAD_START_ID] = "clean2")
          => /\ exit_calls[CAGE_START_ID] = <<I32AsU64(cages[1].code)>>
             /\ cages[1].decs = 0

\* The launch's main thread was the last of two, issued the exit syscall
\* with code 7 and then made the decrement.
C3_Witness ==
    /\ Len(cages) >= 1
    /\ cages[1].pc[THREAD_START_ID] = "done"
    /\ cages[1].pc[2] = "done"
    /\ cages[1].decs = 1
    /\ exit_calls[CAGE_START_ID] = <<I32AsU64(7)>>
    /\ lind_manager = 0

\* C4: from the check that answered true to the decrement (the main thread
\* is at one of the two cleanup calls), no step is an exit of another
\* thread of the same cage: the cage's thread table and every other
\* thread's position stay as they are.
C4_CheckAndDecrementUninterrupted ==
    [][ (Len(cages) >= 1 /\ cages[1].pc[THREAD_START_ID] \in {"clean1", "clean2"})
        => /\ epoch_handler'[CAGE_START_ID] = epoch_handler[CAGE_START_ID]
           /\ \A t \in Tids \ {THREAD_START_ID} : cages'[1].pc[t] = cages[1].pc[t]
      ]_vars

\* Between the exit syscall and the decrement, in a cage that had a
\* second thread.
C4_Witness ==
    /\ Len(cages) >= 1
    /\ cages[1].pc[THREAD_START_ID] = "clean2"
    /\ cages[1].pc[2] = "done"
    /\ cages[1].decs = 0

\* C5: no two cages hold the same WasiCtx, LindCommonCtx or LindCtx, and a
\* change of one cage's argument vector leaves every other cage's as it
\* was (child against parent and parent against child alike).
C5_ForkIndependence ==
    [][ /\ \A c, d \in Slots :
              c # d =>
                 /\ cages[c].host.preview1_ctx # cages[d].host.preview1_ctx
                 /\ cages[c].host.lind_common_ctx # cages[d].host.lind_common_ctx
                 /\ cages[c].host.lind_fork_ctx # cages[d].host.lind_fork_ctx
        /\ cages' = cages =>
              \A c, d \in Slots :
                 (c # d /\ HostView(cages[c].host).argv' # HostView(cages[c].host).argv)
                    => HostView(cages[d].host).argv' = HostView(cages[d].host).argv
      ]_vars

\* A child whose argument vector was changed after the fork while its
\* parent's stayed, and the other way round.
C5_Witness ==
    \E c \in Slots :
        /\ cages[c].parent # 0
        /\ cages[c].image = cages[cages[c].parent].image
        /\ preview1[cages[c].host.preview1_ctx]
             = Append(preview1[cages[cages[c].parent].host.preview1_ctx], "m")

C5_WitnessParent ==
    \E c \in Slots :
        /\ cages[c].parent # 0
        /\ cages[c].image = cages[cages[c].parent].image
        /\ preview1[cages[cages[c].parent].host.preview1_ctx]
             = Append(preview1[cages[c].host.preview1_ctx], "m")

\* C6 as stated: every cage of the fork tree of one launch holds the same
\* thread-pool instance.
C6_OnePoolForTheTree ==
    \A c, d \in Slots : cages[c].host.wasi_threads = cages[d].host.wasi_threads

\* C6 as amended: a child holds the very thread-pool instance its parent
\* held when it forked, so cages running images of the same exec (or of the
\* launch) share one instance; an exec gives the cage a thread pool of its
\* own.
C6_ForkSharesPool ==
    /\ \A c, d \in Slots :
          cages[c].image = cages[d].image
             => /\ cages[c].host.wasi_threads = cages[d].host.wasi_threads
                /\ cages[c].host.wasi_threads # None
    /\ \A c, d \in Slots :
          cages[c].image # cages[d].image
             => cages[c].host.wasi_threads # cages[d].host.wasi_threads

\* A grandchild of the launch, sharing the launch's thread pool.
C6_Witness ==
    \E c \in Slots :
        /\ cages[c].parent # 0
        /\ cages[cages[c].parent].parent # 0
        /\ cages[c].host.wasi_threads = cages[1].host.wasi_threads

\* C7: a HostCtx::fork step leaves what every existing context gives
\* access to unchanged, and the allocators at their values.
C7_ForkLeavesParentAndAllocator ==
    [][ Len(cages') = Len(cages) + 1
        => /\ \A c \in Slots :
                 /\ cages'[c].host = cages[c].host
                 /\ HostView(cages[c].host)' = HostView(cages[c].host)
           /\ allocators' = allocators
      ]_vars

\* A fork of a context whose fork/exec state is present (it holds the
\* allocator), made twice.
C7_Witness ==
    /\ phase = "unit"
    /\ Len(cages) = 3
    /\ cages[1].host.lind_fork_ctx # None
    /\ cages[1].host.preview1_ctx # None

\* C8: whatever sub-states the parent has, each field of the child is
\* present exactly when the parent's is, and a present field names an
\* object that exists.
C8_ForkPropagatesAbsence ==
    \A c \in Slots :
        cages[c].parent # 0 =>
            LET p == cages[cages[c].parent].host
                h == cages[c].host
            IN  /\ (h.preview1_ctx # None) = (p.preview1_ctx # None)
                /\ (h.lind_common_ctx # None) = (p.lind_common_ctx # None)
                /\ (h.lind_fork_ctx # None) = (p.lind_fork_ctx # None)
                /\ (h.wasi_threads # None) = (p.wasi_threads # None)
                /\ h.preview1_ctx \in 0..Len(preview1)
                /\ h.lind_common_ctx \in 0..Len(common)
                /\ h.lind_fork_ctx \in 0..Len(forkc)
                /\ h.wasi_threads \in 0..arcs

\* A fork of a context with only the thread pool present, and one with
\* only the thread pool absent.
C8_Witness ==
    /\ phase = "unit"
    /\ Len(cages) >= 2
    /\ cages[1].host.preview1_ctx = None
    /\ cages[1].host.lind_common_ctx = None
    /\ cages[1].host.lind_fork_ctx = None
    /\ cages[1].host.wasi_threads # None
    /\ cages[2].host.wasi_threads # None

\* C9: after an exec call with raw arguments R, the configuration of the
\* exec'd program is present and its args are R without its first element
\* (empty when R has at most one), whatever args the configuration held.
C9_ExecArgsRewrite ==
    last_exec.cage # 0 =>
        /\ ExecdConf # NoConfig
        /\ IsTail(ExecdConf[1].args, last_exec.raw)

\* R = [prog, a, b] over a configuration whose args were [x, y].
C9_Witness ==
    /\ last_exec.cage # 0
    /\ last_exec.raw = <<"prog", "a", "b">>
    /\ last_exec.pre # NoConfig
    /\ last_exec.pre[1].args = <<"x", "y">>
    /\ ExecdConf[1].args = <<"a", "b">>

\* C10: an exec from a cage that holds no configuration builds one: it is
\* present, its args are the tail of the exec arguments and its other
\* fields are the defaults.
C10_ExecSynthesizesDefault ==
    (last_exec.cage # 0 /\ last_exec.pre = NoConfig) =>
        /\ ExecdConf # NoConfig
        /\ IsTail(ExecdConf[1].args, last_exec.raw)
        /\ ExecdConf[1].steward = NoSteward
        /\ ExecdConf[1].files = <<>>
        /\ ExecdConf[1].env = <<>>

\* No Enarx.toml at launch, exec with [prog, a, b].
C10_Witness ==
    /\ package = NoConfig
    /\ last_exec.cage # 0
    /\ last_exec.pre = NoConfig
    /\ last_exec.raw = <<"prog", "a", "b">>
    /\ ExecdConf = Some(Config(NoSteward, <<"a", "b">>, <<>>, <<>>))


\* ------------------------------------------------------------ exec, continued
\* The allocator a cage's contexts hold, one entry per context present.
AllocatorsOf(c) ==
    (IF cages[c].host.lind_common_ctx = None THEN {}
     ELSE {common[cages[c].host.lind_common_ctx].next_cageid})
    \cup (IF cages[c].host.lind_fork_ctx = None THEN {}
          ELSE {forkc[cages[c].host.lind_fork_ctx].next_cageid})

\* Identities handed out by fork calls that have not spawned their cage yet.
PendingForks == {c \in Slots : cages[c].pending # 0}

Returned == loader.pc \in {"returned", "handed"}

\* load_main_module has come back from the match on the entry function.
PastInvoke == Returned /\ loader.i = Len(LoadSteps)

\* invoke_func has been applied to the resolved entry function.
Invoked == PastInvoke /\ loader.func # NoFunc

\* The module has nothing to run: no "_initialize", no "" and no "_start".
NoEntryModule ==
    /\ wasm.caller # "none"
    /\ wasm.module.init = "absent"
    /\ wasm.module.empty = NoFunc
    /\ wasm.module.start = NoFunc

\* C12: a module that exports neither an initializer nor an entry function,
\* and does export the epoch global (and the stack bounds), comes back from
\* the loader as the empty successful result list, and the launch that takes
\* this result neither fails nor crashes on it.
C12_NoEntryIsEmptySuccess ==
    (NoEntryModule /\ wasm.module.epoch = "global" /\ wasm.module.stack) =>
      /\ loader.pc # "panic"
      /\ Returned => loader.result = [ok |-> TRUE, vals |-> <<>>, err |-> ""]
      /\ wasm.caller = "execute" =>
            cages[1].pc[THREAD_START_ID] \notin {"panicked", "failed"}

\* C13: when the call of the entry function traps, invoke_func hands its
\* caller an error, never a successful result list.
C13_TrapSurfacesAsError ==
    (Invoked /\ loader.trapped) => (~loader.result.ok /\ loader.result.err # "")

\* The parameters and texts of the invoke_func call.
Params == loader.func[1].params

\* The texts supplied are fewer than the parameters, and each parses under
\* the type of its parameter.
TooFewButParsing ==
    /\ Len(wasm.args) < Len(Params)
    /\ \A i \in 1..Len(wasm.args) :
          \/ Params[i] \in {"i32", "i64"} /\ wasm.args[i] \in {"7", "-1"}
          \/ Params[i] \in {"f32", "f64"} /\ wasm.args[i] \in {"7", "-1", "1.5"}

\* C14: a function with n >= 1 parameters given k < n texts, each parsing
\* under its parameter's type, makes invoke_func fail with the
\* argument-count error, and the function is not called.
C14_TooFewArgumentsFail ==
    (Invoked /\ TooFewButParsing) =>
      /\ ~loader.result.ok
      /\ loader.result.err = "not enough arguments for invoke"
      /\ loader.calls = 0
      /\ \A i \in 1..Len(loader.trace) : loader.trace[i].ev # "call"

\* Two parameters, one text: the arity case.
C14_Witness ==
    /\ Invoked
    /\ TooFewButParsing
    /\ Len(Params) = 2
    /\ Len(wasm.args) = 1
    /\ ~loader.result.ok

\* The parameters whose type is a reference type, and those whose text is
\* there and does not parse under a numeric type.
RefParams == {i \in 1..Len(Params) : Params[i] \notin {"i32", "i64", "f32", "f64"}}

Unparsable ==
    {i \in 1..Len(Params) :
        /\ i <= Len(wasm.args)
        /\ \/ Params[i] \in {"i32", "i64"} /\ wasm.args[i] \notin {"7", "-1"}
           \/ Params[i] \in {"f32", "f64"} /\ wasm.args[i] \notin {"7", "-1", "1.5"}}

TypeErrors == {"parse error", "unsupported argument type"}

\* C15 as stated: whenever a text does not parse under its parameter's type,
\* or a parameter has a reference type, invoke_func fails with a type error
\* and the function is not called.
C15_TypeErrorAlways ==
    (Invoked /\ RefParams \cup Unparsable # {}) =>
      /\ ~loader.result.ok
      /\ loader.result.err \in TypeErrors
      /\ loader.calls = 0

\* C15: when a text does not parse under its parameter's type or a parameter
\* has a reference type, invoke_func fails and the function is not called;
\* the failure is a type error when a text was supplied for the first such
\* parameter, and the argument-count error when the texts run out at or
\* before it.
C15_TypeErrorUnlessTextsRunOut ==
    (Invoked /\ RefParams \cup Unparsable # {}) =>
      LET first == CHOOSE i \in RefParams \cup Unparsable :
                      \A j \in RefParams \cup Unparsable : i <= j
      IN  /\ ~loader.result.ok
          /\ loader.calls = 0
          /\ first <= Len(wasm.args) => loader.result.err \in TypeErrors
          /\ first > Len(wasm.args) =>
                loader.result.err = "not enough arguments for invoke"

\* A text that does not parse as i32, and a reference parameter with a text.
C15_Witness ==
    /\ Invoked
    /\ Unparsable # {}
    /\ loader.result.err = "parse error"

C15_WitnessRef ==
    /\ Invoked
    /\ RefParams # {}
    /\ loader.result.err = "unsupported argument type"

\* ------------------------------------------------------------ the exit code
\* The low 32 bits of a 64-bit word, read as a signed integer.
Low32Signed(w) ==
    IF w[3] >= Limb \div 2 THEN (w[3] - Limb) * Limb + w[4]
    ELSE w[3] * Limb + w[4]

\* Runtime::execute has run a "_start" that returned the single value I32(n).
StartReturnedI32 ==
    /\ wasm.caller = "execute"
    /\ Invoked
    /\ loader.func[1].name = "_start"
    /\ loader.calls = 1
    /\ ~loader.trapped
    /\ Len(loader.result.vals) = 1
    /\ loader.result.vals[1].ty = "i32"

\* C16: when "_start" returns a single 32-bit integer N, the code the launch
\* derives is N, and the argument of the cage's exit syscall is N as a 64-bit
\* word: its low 32 bits read as a signed integer are N and its high 32 bits
\* are the sign of N, for N negative as well.
C16_ExitCodeIsStartResult ==
    StartReturnedI32 =>
      LET n == loader.result.vals[1].v
      IN  /\ cages[1].pc[THREAD_START_ID] \in {"exiting", "clean1", "clean2", "done"}
             => cages[1].code = n
          /\ cages[1].pc[THREAD_START_ID] \in {"clean2", "done"} =>
                /\ Len(exit_calls[CAGE_START_ID]) = 1
                /\ Low32Signed(exit_calls[CAGE_START_ID][1]) = n
                /\ \A i \in 1..2 :
                      exit_calls[CAGE_START_ID][1][i] = IF n < 0 THEN Limb - 1 ELSE 0

\* "_start" returned -1 and the exit syscall has been issued with it.
C16_Witness ==
    /\ StartReturnedI32
    /\ loader.result.vals[1].v < 0
    /\ cages[1].pc[THREAD_START_ID] = "done"
    /\ exit_calls[CAGE_START_ID] = <<<<65535, 65535, 65535, 65535>>>>

\* The ends of the 32-bit range have been passed as well.
C16_WitnessRange ==
    /\ StartReturnedI32
    /\ loader.result.vals[1].v = 2147483647
    /\ cages[1].pc[THREAD_START_ID] = "done"
    /\ exit_calls[CAGE_START_ID] = <<<<0, 0, 32767, 65535>>>>

\* ------------------------------------------------------------ the epoch global
\* The calls load_main_module has made so far, by name.
Made(name) == \E i \in 1..Len(loader.trace) : loader.trace[i].ev = name

NoEpochModule == wasm.caller # "none" /\ wasm.module.epoch # "global"

\* Neither the signal registration, nor the enabling of delivery, nor the
\* entry function has been reached.
NothingSignalled ==
    /\ ~Made("lind_signal_init")
    /\ ~Made("signal_may_trigger")
    /\ ~Made("call")
    /\ loader.calls = 0

\* C17 as stated: for a module without the epoch global, with or without an
\* entry function, loading never comes back, with a result or with an error,
\* and neither the signal registration, nor the enabling of delivery, nor the
\* entry call happens.
C17_MissingEpochNeverReturns ==
    NoEpochModule => (~Returned /\ NothingSignalled)

\* C17: for a module without the epoch global, with or without an entry
\* function, neither the signal registration, nor the enabling of delivery,
\* nor the entry call happens, and loading never comes back with a result;
\* it comes back with an error only when the initializer failed, which is
\* before the epoch global is looked up, and otherwise ends in the panic.
C17_MissingEpochIsFatal ==
    NoEpochModule =>
      /\ NothingSignalled
      /\ Returned => /\ ~loader.result.ok
                     /\ wasm.module.init \in {"trap", "exit"}
                     /\ loader.result.err \in {"trap in _initialize",
                                               "I32Exit(3) in _initialize"}
      /\ wasm.module.init \notin {"trap", "exit"} => ~Returned
      /\ loader.pc = "loading" => loader.i <= 4

\* The panic on the missing epoch global, for a module with an entry
\* function and for one without.
C17_Witness ==
    /\ NoEpochModule
    /\ wasm.module.stack
    /\ wasm.module.start # NoFunc
    /\ loader.pc = "panic"
    /\ Made("set_stack")

C17_WitnessNoEntry ==
    /\ NoEpochModule
    /\ wasm.module.stack
    /\ wasm.module.start = NoFunc /\ wasm.module.empty = NoFunc
    /\ loader.pc = "panic"

\* ------------------------------------------------------------ the cage manager
\* A cage is live from its creation until its last thread has exited.
Live(c) == \E t \in Tids : cages[c].pc[t] \notin {"none", "done"}

\* C18: the cage manager's counter equals the number of live cages in every
\* state: it is never negative, it has been incremented once for each cage
\* created and decremented at most once for a cage, and the cages it no
\* longer counts are those whose last thread has exited.
C18_CounterCountsLiveCages ==
    /\ lind_manager >= 0
    /\ lind_manager = Cardinality({c \in Slots : Live(c)})
    /\ \A c \in Slots : cages[c].decs \in {0, 1}
    /\ lind_manager = Len(cages) - Cardinality({c \in Slots : cages[c].decs = 1})
    /\ \A c \in Slots : cages[c].decs = 1 <=> ~Live(c)

\* The main cage has exited through the launch's own path while a cage it
\* forked is still running.
C18_Witness ==
    /\ Len(cages) >= 2
    /\ cages[1].pc[THREAD_START_ID] = "done"
    /\ cages[1].decs = 1
    /\ exit_calls[CAGE_START_ID] # <<>>
    /\ lind_manager = Len(cages) - 1
    /\ lind_manager >= 1

\* ------------------------------------------------------------ the loader's order
\* The calls of a complete load in the order of the claim: the initializer
\* when exported, the entry resolution, the stack bounds, the registration
\* of the epoch cell for the cage's own pid with the first-thread id and the
\* main-thread flag, the enabling of signal delivery, and the entry call.
FullOrder ==
    (IF wasm.module.init = "absent" THEN <<>>
     ELSE <<Ev("_initialize", wasm.pid, 0, FALSE)>>)
    \o <<Ev("resolve", wasm.pid, 0, FALSE),
         Ev("set_stack", wasm.pid, 0, FALSE),
         Ev("lind_signal_init", wasm.pid, THREAD_START_ID, TRUE),
         Ev("signal_may_trigger", wasm.pid, 0, FALSE),
         Ev("call", wasm.pid, 0, FALSE)>>

\* How many times a call has been made.
Times(name) == Cardinality({i \in 1..Len(loader.trace) : loader.trace[i].ev = name})

\* C19: the loader's calls are made in the fixed order: what it has done at
\* any point is an initial part of FullOrder; the registration and the
\* enabling of delivery are made at most once each, and exactly once each,
\* registration first, before the entry function is called or the loader
\* comes back from the entry match.
C19_LoaderOrder ==
    wasm.caller # "none" =>
      /\ Len(loader.trace) <= Len(FullOrder)
      /\ \A i \in 1..Len(loader.trace) : loader.trace[i] = FullOrder[i]
      /\ Times("lind_signal_init") <= 1
      /\ Times("signal_may_trigger") <= 1
      /\ (Made("call") \/ PastInvoke) =>
            /\ Times("lind_signal_init") = 1
            /\ Times("signal_may_trigger") = 1
            /\ \A c \in Slots :
                  (cages[c].pid = wasm.pid /\ cages[c].pc[THREAD_START_ID] = "run")
                     => THREAD_START_ID \in epoch_handler[wasm.pid]
      /\ Made("signal_may_trigger") => Made("lind_signal_init")

\* A complete load for the forked cage 2: initializer, resolution, stack
\* bounds, registration under pid 2, enabling, entry call.
C19_Witness ==
    /\ wasm.pid = 2
    /\ PastInvoke
    /\ loader.trace = FullOrder
    /\ Len(loader.trace) = 6
    /\ loader.trace[4] = Ev("lind_signal_init", 2, THREAD_START_ID, TRUE)

\* ------------------------------------------------------------ argv
\* The argument vector of the cage in slot c is the placeholder program name
\* followed by the arguments of the configuration its LindCtx holds, in
\* order.
ArgvOf(c) == preview1[cages[c].host.preview1_ctx]

ConfArgsOf(c) == UnwrapOrDefault(forkc[cages[c].host.lind_fork_ctx].conf).args

ArgvIsPlaceholderThenArgs(c) ==
    /\ Len(ArgvOf(c)) = 1 + Len(ConfArgsOf(c))
    /\ ArgvOf(c)[1] = "main.wasm"
    /\ \A i \in 1..Len(ConfArgsOf(c)) : ArgvOf(c)[i + 1] = ConfArgsOf(c)[i]

\* C20: the launch, and every exec, gives the module an argument vector made
\* of the placeholder program name followed by the configuration's arguments
\* in order, of length one plus their number; after an exec with
\* [prog, a, b] it is [placeholder, a, b].
C20_ArgvIsPlaceholderThenArgs ==
    [][ /\ (phase = "start" /\ phase' = "up") =>
              /\ ArgvIsPlaceholderThenArgs(1)'
              /\ ConfArgsOf(1)' = UnwrapOrDefault(package).args
        /\ \A c \in Slots :
              cages'[c].host # cages[c].host =>
                 /\ ArgvIsPlaceholderThenArgs(c)'
                 /\ last_exec'.cage = c
                 /\ IsTail(ConfArgsOf(c)', last_exec'.raw)
                 /\ last_exec'.raw = <<"prog", "a", "b">> =>
                       ArgvOf(c)' = <<"main.wasm", "a", "b">>
      ]_vars

\* The cage of an exec with [prog, a, b] holds [main.wasm, a, b].
C20_Witness ==
    /\ last_exec.cage # 0
    /\ last_exec.raw = <<"prog", "a", "b">>
    /\ ArgvOf(last_exec.cage) = <<"main.wasm", "a", "b">>
    /\ package # NoConfig
    /\ ArgvOf(1) = <<"main.wasm", "x", "y">>

\* ------------------------------------------------------------ the error path
\* The loader has handed Runtime::execute an error and the match has taken
\* it.
LaunchGotError ==
    /\ wasm.caller = "execute"
    /\ loader.pc = "returned"
    /\ ~loader.result.ok
    /\ cages[1].pc[THREAD_START_ID] # "run"

C21_WitnessUnchanged ==
    /\ LaunchGotError
    /\ toplevel.state = "returned"
    /\ toplevel.err = "not enough arguments for invoke"

\* ------------------------------------------------------------ C22
\* The set-up failures the taxonomy names: engine creation, module
\* compilation, linker wiring and the construction of a capability context.
SetupFailures ==
    {"engine", "compile", "link_wasi", "link_threads", "link_common",
     "common_ctx", "fork_ctx", "threads_ctx"}

Count(seq, x) == Cardinality({k \in DOMAIN seq : seq[k] = x})

\* The step chosen to fail has been reached.
SetupFailed == setup.fails \in SetupFailures /\ Count(setup.trace, setup.fails) > 0

\* C22: when engine creation, module compilation, linker wiring or the
\* construction of a capability context fails during a launch or an exec,
\* the operation has returned that error: the failing step was attempted
\* exactly once and is the last step attempted, no later step ran, and
\* load_main_module was never called, so no cage instantiates or runs the
\* module.
C22_SetupFailureReturnsAtOnce ==
    SetupFailed =>
      /\ setup.pc = "returned"
      /\ setup.result = ErrorOf(setup.fails, package)
      /\ setup.result # ""
      /\ Count(setup.trace, setup.fails) = 1
      /\ setup.trace[Len(setup.trace)] = setup.fails
      /\ \A k \in 1..Len(setup.trace) :
            setup.trace[k] = SetupSteps(setup.caller)[k]
      /\ Len(setup.trace) = setup.i
      /\ Count(setup.trace, "load") = 0
      /\ phase = "setup"
      /\ cages = <<>>
      /\ loader = LoaderIdle

C22_Witness ==
    /\ SetupFailed
    /\ setup.caller = "execute"
    /\ setup.fails = "threads_ctx"
    /\ setup.pc = "returned"

C22_WitnessExec ==
    /\ SetupFailed
    /\ setup.caller = "execute_with_lind"
    /\ setup.fails = "compile"
    /\ setup.pc = "returned"

\* ------------------------------------------------------------ C23
\* A Workload has been produced from the package.
WorkloadProduced == setup.caller = "execute" /\ setup.workload # <<>>

\* C23: whenever the package loader has produced a Workload, the module it
\* read is at most 100 MB long and the configuration buffer it read at most
\* 1 MB long.
C23_LoaderEnforcesSizeLimits ==
    WorkloadProduced =>
      /\ setup.input[1].wasm.len <= MAX_WASM_SIZE
      /\ setup.workload[1].webasm <= MAX_WASM_SIZE
      /\ setup.input[1].conf # <<>> => setup.input[1].conf[1].len <= MAX_CONF_SIZE

\* ------------------------------------------------------------ C24
\* C24: an exec changes only the args of the configuration. The steward,
\* files and env of the configuration the exec'd program runs with are those
\* of the configuration the calling image held (the defaults when it held
\* none), and the step leaves every configuration stored before it,
\* the caller's own with its args included and the package's, as it was.
C24_ExecChangesOnlyArgs ==
    [][ \A c \in Slots :
          cages'[c].host # cages[c].host =>
             LET old == forkc[cages[c].host.lind_fork_ctx].conf
                 new == forkc'[cages'[c].host.lind_fork_ctx].conf
             IN  /\ new # NoConfig
                 /\ new[1].steward = UnwrapOrDefault(old).steward
                 /\ new[1].files = UnwrapOrDefault(old).files
                 /\ new[1].env = UnwrapOrDefault(old).env
                 /\ IsTail(new[1].args, last_exec'.raw)
                 /\ last_exec'.pre = old
                 /\ \A h \in 1..Len(forkc) : forkc'[h] = forkc[h]
                 /\ cages'[c].host.lind_fork_ctx > Len(forkc)
                 /\ package' = package
      ]_vars

\* An exec with [prog, a, b] from an image whose configuration names a
\* steward, files and env and held the args [x, y]: the new configuration
\* keeps the three and the launch's LindCtx still holds [x, y].
C24_Witness ==
    /\ last_exec.cage # 0
    /\ last_exec.raw = <<"prog", "a", "b">>
    /\ last_exec.pre = Some(Config("url", <<"x", "y">>, <<"f">>, <<"e">>))
    /\ ExecdConf = Some(Config("url", <<"a", "b">>, <<"f">>, <<"e">>))
    /\ forkc[1].conf = Some(Config("url", <<"x", "y">>, <<"f">>, <<"e">>))

\* ------------------------------------------------------------ C25
\* The engine / compiled-module pair a cage runs on is named by the image
\* field of its record.
C25_OnePairForTheTree ==
    \A c, d \in Slots : cages[c].image = cages[d].image

\* C25 as amended: a cage created by fork runs on the engine / compiled-module
\* pair its parent runs on at that moment, and keeps it until it calls exec;
\* an exec gives the calling cage a pair that no cage ran on before, and
\* changes the pair of no other cage.
C25_ForkSharesPairExecReplacesIt ==
    [][ /\ \A c \in Slots :
              /\ cages'[c].image # cages[c].image => cages'[c].host # cages[c].host
              /\ cages'[c].host # cages[c].host =>
                    /\ \A d \in Slots : cages'[c].image # cages[d].image
                    /\ \A d \in Slots \ {c} : cages'[d].image = cages[d].image
        /\ \A c \in 1..Len(cages') :
              (c > Len(cages) /\ c > 1) =>
                    cages'[c].image = cages[cages'[c].parent].image
      ]_vars

\* A cage forked by the launch's image called exec and forked in turn: its
\* child runs on the pair the exec built, the main cage on the launch's.
C25_Witness ==
    \E c, d \in Slots :
        /\ cages[c].parent = 1
        /\ cages[d].parent = c
        /\ last_exec.cage = c
        /\ cages[1].image = 0
        /\ cages[c].image # 0
        /\ cages[d].image = cages[c].image

BothEntries == wasm.module.empty # NoFunc /\ wasm.module.start # NoFunc

\* C27: entry resolution is ordered. At most one entry function is called per
\* load, and it is the function the loader resolved; when the module exports
\* the empty name, the function called is that export, also when "_start" is
\* exported as well, and the load returns that function's results; a function
\* exported as "_start" is called only by a load of a module without an
\* export under the empty name.
C27_EntryResolutionOrdered ==
    /\ loader.calls <= 1
    /\ Count(loader.trace, Ev("call", wasm.pid, 0, FALSE)) = loader.calls
    /\ loader.calls = 1 =>
          /\ loader.func # NoFunc
          /\ loader.func = GetEntry(wasm.module)
          /\ wasm.module.empty # NoFunc => loader.func[1].name = ""
          /\ loader.func[1].name = "_start" =>
                /\ wasm.module.empty = NoFunc
                /\ loader.func = wasm.module.start
    /\ (PastInvoke /\ wasm.module.empty # NoFunc) =>
          /\ loader.calls = 1
          /\ loader.func = wasm.module.empty
          /\ loader.result.ok
          /\ loader.result.vals = wasm.module.empty[1].rets

\* A module exporting both, of which "_start" would trap on being called:
\* the load called one function, the one under the empty name.
C27_Witness ==
    /\ PastInvoke
    /\ BothEntries
    /\ wasm.module.start[1].traps
    /\ loader.calls = 1
    /\ loader.func[1].name = ""
    /\ ~loader.trapped

\* A module exporting "_start" alone, which was called.
C27_WitnessStart ==
    /\ PastInvoke
    /\ wasm.module.empty = NoFunc
    /\ loader.calls = 1
    /\ loader.func[1].name = "_start"

\* ------------------------------------------------------------ C28
\* sign_sev has been applied.
Signed == unit.fn = "sign_sev" /\ unit.out # <<>>

\* C28: sign_sev returns an error for every id-block input whose length is
\* not the size of an IdBlock, whatever the key and the signature input;
\* and when it succeeds, the id_block of its result has the length and the
\* bytes of the input, in order.
C28_SignSevChecksLengthKeepsBlock ==
    Signed =>
      LET in  == unit.arg[1]
          out == unit.out[1]
      IN  /\ Len(in) # SizeOfIdBlock =>
                /\ out.how = "err"
                /\ out.err = "Invalid length of SEV input data"
          /\ out.how = "ok" =>
                /\ Len(in) = SizeOfIdBlock
                /\ Len(out.id_block) = Len(in)
                /\ \A i \in 1..Len(in) : out.id_block[i] = in[i]

\* A block of the right length with distinct bytes, signed.
C28_Witness ==
    /\ Signed
    /\ unit.out[1].how = "ok"
    /\ unit.arg[1][2] = 2
    /\ unit.out[1].id_block[SizeOfIdBlock] = SizeOfIdBlock

\* A block one byte too long, with a well-formed signature input: an error.
C28_WitnessLength ==
    /\ Signed
    /\ Len(unit.arg[1]) = SizeOfIdBlock + 1
    /\ unit.arg[3] = "valid"
    /\ unit.out[1].how = "err"

\* ------------------------------------------------------------ C29
\* All four sub-states of a Host Context are present, and each names an
\* object that exists.
AllPresent(h) ==
    /\ h.preview1_ctx # None /\ h.preview1_ctx <= Len(preview1)
    /\ h.wasi_threads # None /\ h.wasi_threads <= arcs
    /\ h.lind_common_ctx # None /\ h.lind_common_ctx <= Len(common)
    /\ h.lind_fork_ctx # None /\ h.lind_fork_ctx <= Len(forkc)

\* C29: when Runtime::execute or Runtime::execute_with_lind has called
\* load_main_module, the Host Context of its store has all four sub-states,
\* and so has every context made from it by any number of forks; before that
\* call there is no cage whose module code could use an accessor.
C29_SubStatesPresentWhenLoaded ==
    /\ setup.pc = "loading" =>
          /\ AllPresent(setup.host)
          /\ Len(cages) >= 1
          /\ cages[1].host = setup.host
          /\ \A c \in Slots : AllPresent(cages[c].host)
    /\ setup.pc # "loading" => cages = <<>>

\* The loader entered from exec, and the context forked twice in a row.
C29_Witness ==
    /\ setup.pc = "loading"
    /\ setup.caller = "execute_with_lind"
    /\ \E c, d \in Slots :
          /\ cages[c].parent = 1
          /\ cages[d].parent = c
          /\ AllPresent(cages[d].host)
          /\ cages[d].host.preview1_ctx # cages[1].host.preview1_ctx

\* The loader entered from the launch.
C29_WitnessLaunch ==
    /\ setup.pc = "loading"
    /\ setup.caller = "execute"
    /\ Len(cages) = 2
    /\ AllPresent(cages[2].host)

\* ------------------------------------------------------------ C30
\* C30: when load_main_module has returned an error to Runtime::execute (the
\* module load or the entry invocation failed) and the match has taken it,
\* the launch has made no thread-exit check, no exit syscall and no
\* decrement: the Cage Manager counter stands where the launch's increment
\* put it, and the main thread is not on the exit path.
C30_ErrorPathSkipsCleanup ==
    LaunchGotError =>
      /\ cages[1].trueobs = 0
      /\ cages[1].decs = 0
      /\ exit_calls[CAGE_START_ID] = <<>>
      /\ lind_manager = LaunchCount
      /\ cages[1].pc[THREAD_START_ID] \notin {"exiting", "clean1", "clean2", "done"}
      /\ ~toplevel.ok

\* An entry function that takes a funcref: the invocation fails with an
\* error the exit-mapping does not recognise, and the counter is still 1.
C30_Witness ==
    /\ LaunchGotError
    /\ loader.result.err = "unsupported argument type"
    /\ toplevel.state = "returned"
    /\ lind_manager = 1
    /\ exit_calls[CAGE_START_ID] = <<>>

\* ------------------------------------------------------------ C35
\* package.try_into() has been executed.
TriedInto == setup.caller = "execute" /\ Count(setup.trace, "try_into") = 1

\* C35: loading a local package yields a Workload without configuration
\* exactly when no configuration handle was supplied; a supplied handle
\* whose bytes cannot be read or do not parse makes the loading fail with
\* that error and without a Workload, never with an absent or a default
\* configuration; a supplied handle that reads and parses yields the
\* configuration its bytes denote.
C35_ConfigAbsentIffNoHandle ==
    TriedInto =>
      LET pkg == setup.input[1]
      IN  /\ setup.workload # <<>> =>
                /\ (setup.workload[1].config = NoConfig) <=> (pkg.conf = <<>>)
                /\ package = setup.workload[1].config
                /\ pkg.wasm.readable
                /\ pkg.conf # <<>> =>
                      /\ pkg.conf[1].readable
                      /\ pkg.conf[1].parses
                      /\ setup.workload[1].config = Some(pkg.conf[1].config)
          /\ (pkg.conf # <<>> /\ ~(pkg.conf[1].readable /\ pkg.conf[1].parses)) =>
                /\ setup.workload = <<>>
                /\ setup.pc = "returned"
                /\ setup.result \in {"failed to read WASM module",
                                     "failed to read config",
                                     "failed to parse config"}
                /\ pkg.wasm.readable =>
                      setup.result = IF pkg.conf[1].readable
                                     THEN "failed to parse config"
                                     ELSE "failed to read config"
                /\ package = NoConfig
                /\ setup.trace[Len(setup.trace)] = "try_into"
          /\ (pkg.conf = <<>> /\ pkg.wasm.readable) =>
                /\ setup.workload # <<>>
                /\ setup.workload[1].config = NoConfig

\* A configuration handle whose bytes read but do not parse: an error.
C35_Witness ==
    /\ TriedInto
    /\ setup.input[1].wasm.readable
    /\ setup.input[1].conf # <<>>
    /\ setup.input[1].conf[1].readable
    /\ ~setup.input[1].conf[1].parses
    /\ setup.pc = "returned"
    /\ setup.result = "failed to parse config"
    /\ setup.workload = <<>>

\* No configuration handle: a Workload without configuration.
C35_WitnessAbsent ==
    /\ TriedInto
    /\ setup.input[1].conf = <<>>
    /\ setup.workload # <<>>
    /\ setup.workload[1].config = NoConfig

\* ------------------------------------------------------------ C34
\* The first n texts, n the number of parameters, parse under the types of
\* the parameters.
EnoughAndParsing ==
    /\ Len(wasm.args) >= Len(Params)
    /\ \A i \in 1..Len(Params) :
          \/ Params[i] \in {"i32", "i64"} /\ wasm.args[i] \in {"7", "-1"}
          \/ Params[i] \in {"f32", "f64"} /\ wasm.args[i] \in {"7", "-1", "1.5"}

\* C34: invoke_func takes the texts from left to right, one for each
\* declared parameter: the function is called exactly when the first n texts
\* are there and parse under the n parameter types, whatever texts follow
\* them; the i-th value passed is the i-th text parsed under the i-th type;
\* a function without parameters is called with no values whatever the
\* texts are; and the vector returned after the call has as many entries as
\* the function declares results.
C34_ArgumentsLeftToRight ==
    Invoked =>
      /\ (loader.calls = 1) <=> EnoughAndParsing
      /\ loader.calls = 0 => loader.values = <<>>
      /\ loader.calls = 1 =>
            /\ Len(loader.values) = Len(Params)
            /\ \A i \in 1..Len(Params) :
                  /\ loader.values[i].ty = Params[i]
                  /\ loader.values[i].v =
                        (CASE Params[i] = "f32" -> F32Bits(wasm.args[i])
                           [] Params[i] = "f64" -> F64Bits(wasm.args[i])
                           [] OTHER -> IntOf(wasm.args[i]))
            /\ loader.result.ok
            /\ Len(loader.result.vals) = Len(loader.func[1].rets)
      /\ Len(Params) = 0 => (loader.calls = 1 /\ loader.values = <<>>)

\* Two parameters and the texts 7 and -1: the values are 7 and -1 in that
\* order.
C34_Witness ==
    /\ Invoked
    /\ Params = <<"i32", "i64">>
    /\ wasm.args = <<"7", "-1">>
    /\ loader.calls = 1
    /\ loader.values = <<I32(7), I64(0 - 1)>>
    /\ Len(loader.result.vals) = 1

\* One parameter, and a second text that would not parse: it is ignored.
C34_WitnessExtra ==
    /\ Invoked
    /\ Params = <<"i32">>
    /\ wasm.args = <<"7", "x">>
    /\ loader.calls = 1
    /\ loader.values = <<I32(7)>>

\* No parameter and three texts: called with no values.
C34_WitnessNone ==
    /\ Invoked
    /\ Params = <<>>
    /\ wasm.args = <<"7", "7", "7">>
    /\ loader.calls = 1
    /\ loader.values = <<>>

\* ------------------------------------------------------------ C33
\* The loader has handed Runtime::execute a successful result list and the
\* match has taken it.
LaunchGotOk ==
    /\ wasm.caller = "execute"
    /\ loader.pc = "returned"
    /\ loader.result.ok
    /\ cages[1].pc[THREAD_START_ID] # "run"

\* C33: for every successful result list of the entry point, the empty list
\* included, the launch derives an exit code, the first value when that is a
\* 32-bit integer and 0 otherwise, and goes on to the last-thread check
\* without failing.
C33_EveryOkListGivesExitCode ==
    LaunchGotOk =>
      /\ cages[1].pc[THREAD_START_ID] \in {"exiting", "clean1", "clean2", "done"}
      /\ toplevel.state # "panicked"
      /\ cages[1].code =
            (IF Len(loader.result.vals) > 0 /\ loader.result.vals[1].ty = "i32"
             THEN loader.result.vals[1].v ELSE 0)

\* ------------------------------------------------------------ C31
\* The load runs for the exec of cage 2.
ExecLoad == wasm.caller = "execute_with_lind"

\* C31: an exec does not change the Cage Manager counter. From the entry
\* into the loader to the return of the exec'd program's result the counter
\* stands at the number of cages (the launch's increment and the fork's),
\* no exit syscall is issued, no thread of any cage is taken through the
\* thread-exit check, and the result is handed back without the launch's
\* match on it.
C31_ExecLeavesCounterAlone ==
    ExecLoad =>
      /\ lind_manager = LaunchCount + 1
      /\ lind_manager = Len(cages)
      /\ \A p \in Pids : exit_calls[p] = <<>>
      /\ \A c \in Slots :
            /\ cages[c].decs = 0
            /\ cages[c].trueobs = 0
            /\ cages[c].pc[THREAD_START_ID] = "run"
            /\ THREAD_START_ID \in epoch_handler[cages[c].pid]
      /\ toplevel = Running1
      /\ loader.pc = "handed" =>
            cages[2].code = 0

\* The exec'd program's "_start" returned I32(7) and the result was handed
\* back: the counter is 2.
C31_Witness ==
    /\ ExecLoad
    /\ loader.pc = "handed"
    /\ loader.calls = 1
    /\ loader.result.ok
    /\ loader.result.vals = <<I32(7)>>
    /\ lind_manager = 2

\* ------------------------------------------------------------ C32
\* The entry point of the initial cage returned successfully and
\* lind_thread_exit has answered that the main thread was the last thread.
MainObservedLast ==
    /\ wasm.caller = "execute"
    /\ loader.result.ok
    /\ cages[1].trueobs = 1

\* The launch has completed: the counter is at zero, where it stood before
\* the launch's increment, and one exit syscall has been issued for the cage.
LaunchCompleted ==
    /\ toplevel.state = "returned"
    /\ toplevel.ok
    /\ cages[1].pc[THREAD_START_ID] = "done"
    /\ lind_manager = LaunchCount - 1
    /\ lind_manager = 0
    /\ Len(exit_calls[CAGE_START_ID]) = 1
    /\ cages[1].decs = 1

====
